---- MODULE Spec2Model ----
(***************************************************************************)
(* Texture Rigger: the layered-texture stack (step3_logic.py,              *)
(* step3_uv_logic.py), the slide-control rig (step2_logic.py), the scene   *)
(* organizer (step3_logic.py) and the tool session (TextureRiggerTool.py). *)
(* The host scene graph is modelled by what the calls made on it do:       *)
(* nodes, one incoming connection per destination plug, one parent per     *)
(* DAG node.                                                               *)
(***************************************************************************)
EXTENDS Integers, Sequences, FiniteSets, TLC

VARIABLES
    colorConn,   \* node whose output feeds the material's color attribute
    layers,      \* color-channel layeredTexture -> [color, alpha]: index -> source
    textures,    \* the color sources inserted so far, oldest first
    call,        \* the last connect call: function, branch, result, state before
    start,       \* the node that fed the color channel before the first call
    firstLt,     \* the layeredTexture the first successful call returned
    follicle,    \* the Attachment's shape: parameterU, parameterV, whether it exists
    slide,       \* the Slide Control and the nodes between it and the follicle
    preRig,      \* parameterU, parameterV read when the rig was built
    dag,         \* DAG node -> its parent (World for a top-level node)
    hidden,      \* DAG nodes whose visibility is 0
    org,         \* the last organize call: arguments, outcome, state before
    ui,             \* the window: selected mesh, prefix field, enabled widgets
    locators_data,  \* pending markers: prefix and locator, in insertion order
    follicles_data, \* promoted Attachments: prefix, follicle, control
    textures_data,  \* per prefix: the chosen file and the nodes connected
    dg,             \* non-DAG node -> the source it is in a layeredTexture
    locked,         \* nodes the user has locked
    last,           \* the last click on Create Locator, Create Follicles or Delete
    session,        \* prefixes promoted since the last full reset; counters
    query,          \* the last transient query: function, plan of failures, nodes, result
    shift,          \* the connect call that an exception inside shift_layers_down ended
    shading,        \* the mesh's shading network and the last material lookup on it
    uv,             \* the last call of run_step3_uv_logic
    setup           \* the last call of setup_follicle_connections: plan of host failures, result

stackVars == <<colorConn, layers, textures, call, start, firstLt>>
slideVars == <<follicle, slide, preRig>>

orgVars == <<dag, hidden, org>>

sessVars == <<ui, locators_data, follicles_data, textures_data, dg, locked, last,
              session>>

vars == <<stackVars, slideVars, orgVars, sessVars, query, shift, shading, uv, setup>>

-----------------------------------------------------------------------------
(* Bounds and program constants *)

ProbeLimit == 100
MaxInserts == 105
MaxAuthored == 2

\* Numbers of the slide rig are fixed point: translate and Precision in
\* tenths, UV parameters and every product or sum of the chain in hundredths.
ClampMin == 0
ClampMax == 100
DefaultPrecision == 8
InvertFactor == 1
MaxStep == 3
ExtremeTranslate == 10000
MaxPrecision == 25

-----------------------------------------------------------------------------
(* Nodes and plugs *)

Node(t, i) == [type |-> t, id |-> i]
NoNode == Node("none", 0)

\* connectAttr(src, dst, force=True) on a multi-attribute element: the element
\* gets src, replacing whatever fed it.
connectAttr(plugs, i, src) ==
    [j \in (DOMAIN plugs) \cup {i} |-> IF j = i THEN src ELSE plugs[j]]

NoPlugs == [j \in {} |-> NoNode]
EmptyLayer == [color |-> NoPlugs, alpha |-> NoPlugs]

-----------------------------------------------------------------------------
(* step3_logic.get_max_layer_index *)

\* The loop reads inputs[index].color for index = 0, 1, ... and leaves after
\* the read at the first index > ProbeLimit; the highest connected index it
\* read is returned, -1 when it read none.
Probed(layer) == {i \in 0..(ProbeLimit + 1) : i \in DOMAIN layer.color}

get_max_layer_index(layer) ==
    LET probed == Probed(layer)
    IN  IF probed = {} THEN -1
        ELSE CHOOSE m \in probed : \A j \in probed : j <= m

(* step3_logic.shift_layers_down: for i = max_index down to 0, the source of
   inputs[i] is disconnected and connected to inputs[i+1] with force=True,
   for color and for alpha.  When i is visited, inputs[i+1] has been vacated
   already if i < max_index; for i = max_index the forced connection replaces
   whatever fed inputs[max_index+1].  Connections above max_index are not
   visited. *)

MovePlugs(plugs, max_index) ==
    LET visited == {i \in DOMAIN plugs : i <= max_index}
        beyond  == {i \in DOMAIN plugs : i > max_index}
    IN  [j \in {i + 1 : i \in visited} \cup beyond |->
            IF j - 1 \in visited THEN plugs[j - 1] ELSE plugs[j]]

shift_layers_down(layer, max_index) ==
    [color |-> MovePlugs(layer.color, max_index),
     alpha |-> MovePlugs(layer.alpha, max_index)]

-----------------------------------------------------------------------------
(* connect_texture_to_mesh / connect_texture_using_uvs: the connection of
   the new texture's top node to the material's color channel.  Both
   functions hold the same three branches; `top` is the projection node in
   projection mode and the file node in UV mode. *)

IsLayeredTextureNever(node) == FALSE

IsLayeredTexture(node) == node.type = "layeredTexture"

ConnectTopBelow(layer, top) ==
    [color |-> connectAttr(layer.color, Cardinality(DOMAIN layer.color), top),
     alpha |-> connectAttr(layer.alpha, Cardinality(DOMAIN layer.color), top)]

ConnectTop(layer, top) ==
    [color |-> connectAttr(layer.color, 0, top),
     alpha |-> connectAttr(layer.alpha, 0, top)]

\* a source that is not a layeredTexture feeds the color channel
WrapExistingOldOnTop(conn, lay, top, fresh) ==
    [conn   |-> fresh,
     layers |-> [n \in (DOMAIN lay) \cup {fresh} |->
                   IF n = fresh
                   THEN [color |-> connectAttr(connectAttr(NoPlugs, 0, conn), 1, top),
                         alpha |-> connectAttr(NoPlugs, 1, top)]
                   ELSE lay[n]],
     lt     |-> fresh,
     branch |-> "wrap"]

WrapExisting(conn, lay, top, fresh) ==
    [conn   |-> fresh,
     layers |-> [n \in (DOMAIN lay) \cup {fresh} |->
                   IF n = fresh
                   THEN ConnectTop([color |-> connectAttr(NoPlugs, 1, conn),
                                    alpha |-> NoPlugs], top)
                   ELSE lay[n]],
     lt     |-> fresh,
     branch |-> "wrap"]

\* a layeredTexture already feeds the color channel
PushOnExisting(conn, lay, top) ==
    LET max_layer_index == get_max_layer_index(lay[conn])
        shifted == IF max_layer_index >= 0
                   THEN shift_layers_down(lay[conn], max_layer_index)
                   ELSE lay[conn]
    IN  [conn   |-> conn,
         layers |-> [lay EXCEPT ![conn] = ConnectTop(shifted, top)],
         lt     |-> conn,
         branch |-> "layered"]

\* nothing feeds the color channel
CreateFreshNoAlpha(conn, lay, top, fresh) ==
    [conn   |-> fresh,
     layers |-> [n \in (DOMAIN lay) \cup {fresh} |->
                   IF n = fresh
                   THEN [color |-> connectAttr(NoPlugs, 0, top), alpha |-> NoPlugs]
                   ELSE lay[n]],
     lt     |-> fresh,
     branch |-> "fresh"]

CreateFresh(conn, lay, top, fresh) ==
    [conn   |-> fresh,
     layers |-> [n \in (DOMAIN lay) \cup {fresh} |->
                   IF n = fresh THEN ConnectTop(EmptyLayer, top) ELSE lay[n]],
     lt     |-> fresh,
     branch |-> "fresh"]

ConnectToMaterial(conn, lay, top, fresh) ==
    LET material_color_connections == conn # NoNode
        existing_connection_to_layer ==
            material_color_connections /\ IsLayeredTexture(conn)
    IN  IF material_color_connections /\ ~existing_connection_to_layer
        THEN WrapExisting(conn, lay, top, fresh)
        ELSE IF existing_connection_to_layer
             THEN PushOnExisting(conn, lay, top)
             ELSE CreateFresh(conn, lay, top, fresh)

\* shadingNode('layeredTexture', name=...): the host gives the first free name
FreshLayeredTexture(lay) ==
    Node("layeredTexture",
         CHOOSE i \in 1..(Cardinality(DOMAIN lay) + 1) :
            /\ Node("layeredTexture", i) \notin DOMAIN lay
            /\ \A j \in 1..(i - 1) : Node("layeredTexture", j) \in DOMAIN lay)

NoCall == [fn |-> "none", branch |-> "none", result |-> NoNode, top |-> NoNode,
           prevConn |-> NoNode, prevLayer |-> EmptyLayer, prevNodes |-> {}]

Outcomes == {"ok", "mesh_missing", "image_missing", "link_fails"}

\* The whole of a connect function as far as the color stack goes: the two
\* early returns (mesh not found, image file not found), the three branches,
\* and the cleanup of the third branch when the last connectAttr raises.
ConnectTexture(fn, outcome) ==
    LET top   == Node("texture", Len(textures) + 1)
        fresh == FreshLayeredTexture(layers)
        r     == ConnectToMaterial(colorConn, layers, top, fresh)
        prev  == IF colorConn \in DOMAIN layers THEN layers[colorConn] ELSE EmptyLayer
        early == outcome \in {"mesh_missing", "image_missing"}
        ok    == ~early /\ ~(r.branch = "fresh" /\ outcome = "link_fails")
    IN  /\ Len(textures) < MaxInserts
        /\ outcome = "link_fails" => colorConn = NoNode
        /\ call' = [fn |-> fn,
                    branch |-> IF early THEN "none" ELSE r.branch,
                    result |-> IF ok THEN r.lt ELSE NoNode,
                    top |-> top, prevConn |-> colorConn, prevLayer |-> prev,
                    prevNodes |-> DOMAIN layers]
        /\ IF ok
           THEN /\ colorConn' = r.conn
                /\ layers' = r.layers
                /\ textures' = Append(textures, top)
                /\ firstLt' = IF textures = <<>> THEN r.lt ELSE firstLt
           ELSE UNCHANGED <<colorConn, layers, textures, firstLt>>
        /\ UNCHANGED <<start, slideVars, orgVars, sessVars, query, shift, shading, uv, setup>>

connect_texture_to_mesh ==
    \E outcome \in Outcomes : ConnectTexture("connect_texture_to_mesh", outcome)

connect_texture_using_uvs ==
    \E outcome \in Outcomes : ConnectTexture("connect_texture_using_uvs", outcome)

-----------------------------------------------------------------------------
(* The color channel before the tool runs: unconnected, fed by an authored
   texture, or fed by an authored layeredTexture with some inputs in use. *)

AuthoredTexture(i) == Node("file", i)
AuthoredLT == Node("layeredTexture", 0)

\* a layeredTexture made by hand: textures at the indexes S, those at the
\* indexes A of them with their alpha connected as well
AuthoredLayers(S, A) ==
    [color |-> [i \in S |-> AuthoredTexture(i)],
     alpha |-> [i \in A |-> AuthoredTexture(i)]]

AuthoredLayer(S) == AuthoredLayers(S, S \cap {0})

StackNext ==
    \/ connect_texture_to_mesh
    \/ connect_texture_using_uvs

-----------------------------------------------------------------------------
(* step2_logic.create_follicle_at_uv and setup_follicle_connections: the
   chain from the Slide Control's translate to the follicle's parameters. *)

multDoubleLinear(input1, input2) == input1 * input2
addDoubleLinear(input1, input2) == input1 + input2

clampNone(input, min, max) == input

clamp(input, min, max) ==
    IF input < min THEN min ELSE IF input > max THEN max ELSE input

\* invert_v_node reads translateX and ends in clamp.inputR -> parameterU;
\* invert_u_node reads translateY and ends in clamp.inputG -> parameterV.
ChainSwapped(s) ==
    LET invert_v_out    == multDoubleLinear(s.translateY, s.invert_input2)
        invert_u_out    == multDoubleLinear(s.translateX, s.invert_input2)
        precision_v_out == multDoubleLinear(invert_v_out, s.Precision)
        precision_u_out == multDoubleLinear(invert_u_out, s.Precision)
        pos_v_out       == addDoubleLinear(precision_v_out, s.pos_v_input2)
        pos_u_out       == addDoubleLinear(precision_u_out, s.pos_u_input2)
    IN  [parameterU |-> clamp(pos_v_out, ClampMin, ClampMax),
         parameterV |-> clamp(pos_u_out, ClampMin, ClampMax)]

Chain(s) ==
    LET invert_v_out    == multDoubleLinear(s.translateX, s.invert_input2)
        invert_u_out    == multDoubleLinear(s.translateY, s.invert_input2)
        precision_v_out == multDoubleLinear(invert_v_out, s.Precision)
        precision_u_out == multDoubleLinear(invert_u_out, s.Precision)
        pos_v_out       == addDoubleLinear(precision_v_out, s.pos_v_input2)
        pos_u_out       == addDoubleLinear(precision_u_out, s.pos_u_input2)
    IN  [parameterU |-> clamp(pos_v_out, ClampMin, ClampMax),
         parameterV |-> clamp(pos_u_out, ClampMin, ClampMax)]

\* The follicle's parameters are fed by the clamp node once the rig is built.
Driven(f, s) ==
    [f EXCEPT !.parameterU = Chain(s).parameterU,
              !.parameterV = Chain(s).parameterV]

UVValues == {0, 50, 75, 100}
Translations == (-MaxStep..MaxStep) \cup {-ExtremeTranslate, ExtremeTranslate}
Precisions == {-DefaultPrecision, 0, DefaultPrecision, MaxPrecision}

NoSlide == [built |-> FALSE, translateX |-> 0, translateY |-> 0, Precision |-> 0,
            invert_input2 |-> 0, pos_v_input2 |-> 0, pos_u_input2 |-> 0]

create_follicle_at_uv ==
    \E u_coord, v_coord \in UVValues :
        /\ ~follicle.exists
        /\ follicle' = [exists |-> TRUE, parameterU |-> u_coord, parameterV |-> v_coord]
        /\ UNCHANGED <<slide, preRig, stackVars, orgVars, sessVars, query, shift, shading, uv, setup>>

setup_follicle_connections ==
    LET param_u == follicle.parameterU
        param_v == follicle.parameterV
        built   == [built |-> TRUE, translateX |-> 0, translateY |-> 0,
                    Precision |-> DefaultPrecision, invert_input2 |-> InvertFactor,
                    pos_v_input2 |-> param_u, pos_u_input2 |-> param_v]
    IN  /\ follicle.exists
        /\ ~slide.built
        /\ slide' = built
        /\ preRig' = [u |-> follicle.parameterU, v |-> follicle.parameterV]
        /\ follicle' = Driven(follicle, built)
        /\ UNCHANGED <<stackVars, orgVars, sessVars, query, shift, shading, uv, setup>>

MoveSlideControl ==
    \E tx, ty \in Translations :
        /\ slide.built
        /\ slide' = [slide EXCEPT !.translateX = tx, !.translateY = ty]
        /\ follicle' = Driven(follicle, slide')
        /\ UNCHANGED <<preRig, stackVars, orgVars, sessVars, query, shift, shading, uv, setup>>

SetPrecision ==
    \E p \in Precisions :
        /\ slide.built
        /\ slide' = [slide EXCEPT !.Precision = p]
        /\ follicle' = Driven(follicle, slide')
        /\ UNCHANGED <<preRig, stackVars, orgVars, sessVars, query, shift, shading, uv, setup>>

SlideNext ==
    \/ create_follicle_at_uv
    \/ setup_follicle_connections
    \/ MoveSlideControl
    \/ SetPrecision

-----------------------------------------------------------------------------
(* The DAG as the organizer sees it.  A node name is <<prefix, base, k>>:
   the rig prefix it starts with (<<>> when it has none), the rest of the
   name, and the number the host appended to make it unique (0 for none):
   <<<<>>, "GEO", 0>> is "GEO", <<<<>>, "GEO", 1>> is "GEO1".  A rig prefix
   is <<stem>> or <<stem, n, ...>> for "stem_n...".  A reference is what a
   command is given or returns: <<>> for None, <<name>> for a short name,
   and <<Bar, top, ..., name>> for a full path "|top|...|name". *)

NoPrefix == <<>>
Name(base) == <<NoPrefix, base, 0>>
World == Name("world")
Bar == Name("|")
NoneRef == <<>>
ShortRef(n) == <<n>>

\* The parent of a node, World above the top level
Up(par, n) == IF n \in DOMAIN par THEN par[n] ELSE World

\* "|top|...|name"; the scenes of the model are at most five levels deep
FullPath(par, n) ==
    LET p1 == Up(par, n)
        p2 == Up(par, p1)
        p3 == Up(par, p2)
        p4 == Up(par, p3)
    IN  IF p1 = World THEN <<Bar, n>>
        ELSE IF p2 = World THEN <<Bar, p1, n>>
        ELSE IF p3 = World THEN <<Bar, p2, p1, n>>
        ELSE IF p4 = World THEN <<Bar, p3, p2, p1, n>>
        ELSE <<Bar, p4, p3, p2, p1, n>>

Resolve(ref) == ref[Len(ref)]

\* cmds.objExists(ref)
objExists(par, ref) ==
    /\ ref # NoneRef
    /\ Resolve(ref) \in DOMAIN par
    /\ Len(ref) > 1 => FullPath(par, Resolve(ref)) = ref

\* cmds.parent(child, newParent)[0]: the moved node, by its short name
parentedName(par, ref) == ShortRef(Resolve(ref))

ls_unresolved(par, ref) == ref

\* cmds.ls(ref, long=True)[0]
ls_long(par, ref) == FullPath(par, Resolve(ref))

\* cmds.listRelatives(ref, parent=True, fullPath=True), first element or None
listRelativesParent(par, ref) ==
    IF par[Resolve(ref)] = World THEN NoneRef ELSE FullPath(par, par[Resolve(ref)])

\* cmds.group(empty=True, name=..., world=True | parent=...): the new group
\* gets the first free name and the command returns it as a short name.
FreeName(par, name) ==
    <<name[1], name[2],
      CHOOSE k \in name[3]..(name[3] + Cardinality(DOMAIN par)) :
         /\ <<name[1], name[2], k>> \notin DOMAIN par
         /\ \A j \in name[3]..(k - 1) : <<name[1], name[2], j>> \in DOMAIN par>>

group(par, name, under) ==
    LET new == FreeName(par, name)
    IN  [par  |-> [n \in (DOMAIN par) \cup {new} |-> IF n = new THEN under ELSE par[n]],
         name |-> ShortRef(new)]

\* cmds.parent(child, newParent)
parent(par, child, newParent) ==
    [par EXCEPT ![Resolve(child)] = Resolve(newParent)]

\* cmds.delete(node): the node and everything below it
Below(par, n) ==
    {m \in DOMAIN par :
        n \in {m, Up(par, m), Up(par, Up(par, m)), Up(par, Up(par, Up(par, m))),
               Up(par, Up(par, Up(par, Up(par, m))))}}

delete(par, n) ==
    [m \in (DOMAIN par) \ Below(par, n) |-> par[m]]

Prefixes == {<<"A">>, <<"B">>}

Texture_ctrl_grp(prefix) == <<prefix, "Texture_ctrl_grp", 0>>
FollicleOf(prefix) == <<prefix, "follicle", 1>>
FollicleShapeOf(prefix) == <<prefix, "follicleShape", 1>>
Place3dOf(prefix) == <<prefix, "place3dTexture", 0>>
Mesh == Name("mesh")
UserGroup == Name("grp")

\* cmds.listRelatives(ref, shapes=True, type="follicle", fullPath=True)
listRelativesShapes(par, ref) ==
    {c \in DOMAIN par : par[c] = Resolve(ref) /\ c[2] = "follicleShape"}

-----------------------------------------------------------------------------
(* step3_logic.organize_scene_hierarchy, its steps in the order of the code.
   A step takes and returns the call's state: the DAG, the hidden nodes, the
   number of cmds.parent calls made, the names the earlier steps found, the
   outcome and the value to return. *)

\* "X" group at the top of the scene: created when no node answers to the
\* name, else its full path is looked up.
TopGroup(par, base) ==
    IF ~objExists(par, ShortRef(Name(base)))
    THEN group(par, Name(base), World)
    ELSE [par |-> par, name |-> ls_long(par, ShortRef(Name(base)))]

\* 1. GEO group for mesh
GeoStep(s, mesh_transform) ==
    LET geo == TopGroup(s.par, "GEO")
        mesh_found == objExists(geo.par, mesh_transform)
        current_mesh_full_path == ls_long(geo.par, mesh_transform)
        move_mesh == /\ mesh_found
                     /\ listRelativesParent(geo.par, current_mesh_full_path) # geo.name
    IN  IF move_mesh
        THEN [s EXCEPT !.par = parent(geo.par, current_mesh_full_path, geo.name),
                       !.reparents = @ + 1,
                       !.result = parentedName(geo.par, current_mesh_full_path)]
        ELSE [s EXCEPT !.par = geo.par,
                       !.result = IF mesh_found THEN current_mesh_full_path
                                  ELSE mesh_transform]

\* RIG group
RigStep(s) ==
    LET rig == TopGroup(s.par, "RIG")
    IN  [s EXCEPT !.par = rig.par, !.rig = rig.name]

\* <prefix>_Texture_ctrl_grp under RIG
CtrlGrpStep(s, name_prefix) ==
    LET texture_ctrl_grp_name == ShortRef(Texture_ctrl_grp(name_prefix))
        existing_grp_full_path == ls_long(s.par, texture_ctrl_grp_name)
    IN  IF ~objExists(s.par, texture_ctrl_grp_name)
        THEN LET made == group(s.par, Texture_ctrl_grp(name_prefix), Resolve(s.rig))
             IN  [s EXCEPT !.par = made.par, !.ctrl = made.name]
        ELSE IF listRelativesParent(s.par, existing_grp_full_path) # s.rig
             THEN LET moved == parent(s.par, existing_grp_full_path, s.rig)
                  IN  [s EXCEPT !.par = moved, !.reparents = @ + 1,
                                !.ctrl = ls_long(moved, texture_ctrl_grp_name)]
             ELSE [s EXCEPT !.ctrl = existing_grp_full_path]

\* the follicle under the control group, its shapes hidden; listRelatives on
\* a name that matches no object raises
FollicleStep(s, follicle_transform) ==
    IF ~objExists(s.par, follicle_transform)
    THEN [s EXCEPT !.outcome = "raised", !.result = NoneRef]
    ELSE LET shapes == listRelativesShapes(s.par, follicle_transform)
         IN  IF listRelativesParent(s.par, follicle_transform) # s.ctrl
             THEN [s EXCEPT !.par = parent(s.par, follicle_transform, s.ctrl),
                            !.reparents = @ + 1,
                            !.hid = @ \cup shapes]
             ELSE [s EXCEPT !.hid = @ \cup shapes]

\* UTIL group, the place3dTexture under it, the group hidden
UtilStep(s, place3d_node) ==
    IF s.outcome = "raised" THEN s
    ELSE
    LET util == TopGroup(s.par, "UTIL")
        move_p3d == /\ objExists(util.par, place3d_node)
                    /\ listRelativesParent(util.par, place3d_node) # util.name
    IN  [s EXCEPT !.par = IF move_p3d THEN parent(util.par, place3d_node, util.name)
                          ELSE util.par,
                  !.reparents = IF move_p3d THEN @ + 1 ELSE @,
                  !.hid = @ \cup {Resolve(util.name)},
                  !.outcome = "returned"]

CallState(par, hid) ==
    [par |-> par, hid |-> hid, reparents |-> 0, rig |-> NoneRef, ctrl |-> NoneRef,
     outcome |-> "running", result |-> NoneRef]

organize_scene_hierarchy(par, hid, mesh_transform, follicle_transform, place3d_node, name_prefix) ==
    IF follicle_transform = NoneRef \/ place3d_node = NoneRef
    THEN [CallState(par, hid) EXCEPT
             !.outcome = "skipped",
             !.result = IF objExists(par, mesh_transform)
                        THEN ls_long(par, mesh_transform) ELSE mesh_transform]
    ELSE CHOOSE done \in
            {UtilStep(s4, place3d_node) : s4 \in
            {FollicleStep(s3, follicle_transform) : s3 \in
            {CtrlGrpStep(s2, name_prefix) : s2 \in
            {RigStep(s1) : s1 \in
            {GeoStep(s0, mesh_transform) : s0 \in {CallState(par, hid)}}}}}} : TRUE

NoOrg == [args |-> <<>>, outcome |-> "none", reparents |-> 0, result |-> NoneRef,
          before |-> [par |-> <<>>, hid |-> {}], repeated |-> FALSE]

\* the forms in which a caller may name the nodes
MeshRefs == {ShortRef(Mesh), <<Bar, Mesh>>, <<Bar, UserGroup, Mesh>>}
FollicleRefs(prefix) ==
    {NoneRef, ShortRef(FollicleOf(prefix)), <<Bar, FollicleOf(prefix)>>}
Place3dRefs(prefix) == {NoneRef, ShortRef(Place3dOf(prefix))}

Organize ==
    \E prefix \in Prefixes, m \in MeshRefs :
      \E f \in FollicleRefs(prefix), p3 \in Place3dRefs(prefix) :
        \E r \in {organize_scene_hierarchy(dag, hidden, m, f, p3, prefix)} :
            /\ dag' = r.par
            /\ hidden' = r.hid
            /\ org' = [args |-> <<m, f, p3, prefix>>, outcome |-> r.outcome,
                       reparents |-> r.reparents, result |-> r.result,
                       before |-> [par |-> dag, hid |-> hidden],
                       repeated |-> (org.args = <<m, f, p3, prefix>>)]
            /\ UNCHANGED <<stackVars, slideVars, sessVars, query, shift, shading, uv, setup>>

\* The user, between two calls: deletes a node the tool works on, or moves
\* the mesh into or out of a group of their own.
Deletable == {Mesh, FollicleOf(<<"A">>), Place3dOf(<<"B">>)}

UserDelete ==
    \E n \in Deletable :
        /\ n \in DOMAIN dag
        /\ dag' = delete(dag, n)
        /\ hidden' = hidden \cap DOMAIN dag'
        /\ org' = NoOrg
        /\ UNCHANGED <<stackVars, slideVars, sessVars, query, shift, shading, uv, setup>>

UserParent ==
    \E to \in {World, UserGroup} :
        /\ Mesh \in DOMAIN dag
        /\ dag[Mesh] # to
        /\ dag' = [dag EXCEPT ![Mesh] = to]
        /\ org' = NoOrg
        /\ UNCHANGED <<hidden, stackVars, slideVars, sessVars, query, shift, shading, uv, setup>>

\* The scene before the tool organizes it: the mesh at the top level or in
\* the user's group, the Attachments and projectors at the top level, and
\* any of the tool's groups left by an earlier session.
ToolGroups == {Name("GEO"), Name("RIG"), Name("UTIL"), Texture_ctrl_grp(<<"A">>)}
PriorGroups == {{}, {Name("GEO")}, {Texture_ctrl_grp(<<"A">>)}, ToolGroups}

SceneNodes(groups) ==
    {Mesh, UserGroup} \cup groups
       \cup {FollicleOf(p) : p \in Prefixes} \cup {FollicleShapeOf(p) : p \in Prefixes}
       \cup {Place3dOf(p) : p \in Prefixes}

Scene(groups, meshParent) ==
    [n \in SceneNodes(groups) |->
        IF n = Mesh THEN meshParent
        ELSE IF n[2] = "follicleShape" THEN FollicleOf(n[1])
        ELSE World]

NoScene == [n \in {} |-> World]
NoFollicle == [exists |-> FALSE, parameterU |-> 0, parameterV |-> 0]
NoPreRig == [u |-> 0, v |-> 0]
NoLayers == [n \in {} |-> EmptyLayer]

OrgNext ==
    \/ Organize
    \/ UserDelete
    \/ UserParent

-----------------------------------------------------------------------------
(* TextureRiggerTool.TextureRiggerUI: the tool window.  A button's handler
   runs only while the button and the frame it is in are enabled.  An
   ordered dict is a sequence of records in insertion order. *)

MaxMarkers == 2
MaxConnected == 2

Keys(data) == {data[i].prefix : i \in 1..Len(data)}
Entry(data, prefix) == data[CHOOSE i \in 1..Len(data) : data[i].prefix = prefix]
Without(data, prefixes) == SelectSeq(data, LAMBDA e : e.prefix \notin prefixes)

MeshShape == Name("meshShape")
Material == Name("lambert1")
DefaultPrefix == <<"Prefix">>
FallbackPrefix == <<"textureRig">>
Blank == <<>>

NoDg == [n \in {} |-> NoNode]

FreshUiKeepsMesh ==
    [selected_mesh_transform |-> ShortRef(Mesh), selected_mesh_shape |-> ShortRef(MeshShape),
     name_field |-> DefaultPrefix, name_field_enabled |-> TRUE,
     create_locator_button |-> FALSE, create_follicles_button |-> TRUE,
     step2_frame |-> FALSE, step3_frame |-> FALSE,
     connect_all_textures_button |-> FALSE]

\* create_ui and reset_tool_state leave the widgets like this
FreshUi ==
    [selected_mesh_transform |-> NoneRef, selected_mesh_shape |-> NoneRef,
     name_field |-> DefaultPrefix, name_field_enabled |-> TRUE,
     create_locator_button |-> FALSE, create_follicles_button |-> TRUE,
     step2_frame |-> FALSE, step3_frame |-> FALSE,
     connect_all_textures_button |-> FALSE]

NoLast == [op |-> "none", prefix |-> Blank, in_use |-> FALSE, accepted |-> FALSE,
           changed |-> FALSE, recorded |-> {}, recorded_lt |-> {}, failed |-> 0,
           deleted_count |-> 0, removed |-> 0, batch |-> {}, succeeding |-> {},
           placed |-> FALSE, missing |-> {}, gone |-> {}, ready |-> {},
           added |-> 0, raised |-> FALSE, skipped |-> {}]

NoSession == [promoted |-> {}, markers |-> 0, connected |-> 0,
              inserted |-> {}, reinserted |-> {}, placed_on |-> {}]

\* reset_tool_state ends the session: what is remembered of its prefixes
Forget(s) == [s EXCEPT !.promoted = {}, !.inserted = {}, !.reinserted = {},
                       !.placed_on = {}]

\* reset_step2_and_beyond, the widgets
reset_step2_and_beyond(u) ==
    [u EXCEPT !.step2_frame = FALSE, !.create_follicles_button = TRUE,
              !.step3_frame = FALSE, !.connect_all_textures_button = FALSE]

\* on_window_close -> reset_tool_state
on_window_close ==
    /\ ui' = FreshUi
    /\ locators_data' = <<>>
    /\ follicles_data' = <<>>
    /\ textures_data' = <<>>
    /\ session' = Forget(session)
    /\ last' = NoLast
    /\ UNCHANGED <<dag, hidden, dg, locked, colorConn, layers>>
    /\ UNCHANGED <<org, textures, call, start, firstLt, slideVars, query, shift, shading, uv, setup>>

\* a second mesh of the scene and the shape of each
OtherMesh == Name("mesh2")
OtherMeshShape == Name("mesh2Shape")
ShapeOf(mesh_transform) ==
    IF mesh_transform = Mesh THEN MeshShape ELSE OtherMeshShape

\* cmds.ls(selection=True, transforms=True) and the search for a mesh in it
Selections ==
    {NoneRef} \cup {ShortRef(m) : m \in {n \in {Mesh, OtherMesh} :
                                            n \in DOMAIN dag /\ ShapeOf(n) \in DOMAIN dag}}

\* on_select_mesh_click: the user has a mesh selected, or nothing
on_select_mesh_click ==
    \E picked \in Selections :
        /\ follicles_data' = <<>>
        /\ textures_data' = <<>>
        /\ IF picked # NoneRef
           THEN ui' = [reset_step2_and_beyond(ui) EXCEPT
                          !.selected_mesh_transform = picked,
                          !.selected_mesh_shape = ShortRef(ShapeOf(Resolve(picked))),
                          !.create_locator_button = TRUE]
           ELSE ui' = reset_step2_and_beyond(ui)
        /\ last' = NoLast
        /\ UNCHANGED <<locators_data, session, dag, hidden, dg, locked, colorConn, layers>>
        /\ UNCHANGED <<org, textures, call, start, firstLt, slideVars, query, shift, shading, uv, setup>>

\* on_name_changed: the text the user leaves in the prefix field
TypedNames == {DefaultPrefix, Blank}

on_name_changed ==
    \E new_name \in TypedNames :
        /\ ui.name_field_enabled
        /\ ui' = [ui EXCEPT !.name_field =
                     IF new_name = Blank THEN FallbackPrefix ELSE new_name]
        /\ last' = NoLast
        /\ UNCHANGED <<locators_data, follicles_data, textures_data, session>>
        /\ UNCHANGED <<dag, hidden, dg, locked, colorConn, layers>>
        /\ UNCHANGED <<org, textures, call, start, firstLt, slideVars, query, shift, shading, uv, setup>>

is_prefix_uniqueNever(prefix_to_check) == FALSE

\* _is_prefix_unique
is_prefix_unique(prefix_to_check) == prefix_to_check \notin Keys(locators_data)

\* the prefix suggested for the next locator: _1 -> _2 -> ... -> _5, and _1
\* appended to anything else
NextPrefix(current_prefix) ==
    IF Len(current_prefix) > 1 /\ current_prefix[Len(current_prefix)] \in 1..4
    THEN [current_prefix EXCEPT ![Len(current_prefix)] = @ + 1]
    ELSE Append(current_prefix, 1)

\* step1_logic.run_step1_logic(prefix, mesh_transform, mesh_shape): a locator
\* "<prefix>_locator#" on the mesh, or None
run_step1_logic(par, prefix, placed) ==
    IF placed
    THEN group(par, <<prefix, "locator", 1>>, World)
    ELSE [par |-> par, name |-> NoneRef]

\* A prefix is in use by a pending marker, or by an Attachment promoted
\* since the tool state was last reset that is still in the scene
InUse(prefix) ==
    \/ prefix \in Keys(locators_data)
    \/ /\ prefix \in session.promoted
       /\ \E n \in DOMAIN dag : n[1] = prefix /\ n[2] = "follicle"

on_create_locator_click ==
    \E placed \in BOOLEAN :
      \E made \in {run_step1_logic(dag, ui.name_field, placed)} :
        LET current_prefix == ui.name_field
            rejected == \/ ui.selected_mesh_transform = NoneRef
                        \/ ui.selected_mesh_shape = NoneRef
                        \/ current_prefix = Blank
                        \/ ~is_prefix_unique(current_prefix)
            added == ~rejected /\ made.name # NoneRef
        IN  /\ ui.create_locator_button
            /\ session.markers < MaxMarkers
            /\ last' = [NoLast EXCEPT !.op = "create_locator", !.prefix = current_prefix,
                                      !.in_use = InUse(current_prefix),
                                      !.accepted = added, !.changed = added,
                                      !.batch = Keys(locators_data),
                                      !.placed = placed]
            /\ IF added
               THEN /\ dag' = made.par
                    /\ locators_data' = Append(locators_data,
                          [prefix |-> current_prefix, locator |-> made.name])
                    /\ ui' = [ui EXCEPT !.name_field = NextPrefix(current_prefix),
                                        !.step2_frame = TRUE]
                    /\ session' = [session EXCEPT
                                      !.markers = @ + 1,
                                      !.placed_on = @ \cup
                                          {<<made.name, ui.selected_mesh_transform>>}]
               ELSE UNCHANGED <<dag, locators_data, ui, session>>
            /\ UNCHANGED <<follicles_data, textures_data, hidden, dg, locked, colorConn, layers>>
            /\ UNCHANGED <<org, textures, call, start, firstLt, slideVars, query, shift, shading, uv, setup>>

\* step2_logic.run_step2_logic on an existing mesh shape and locator: nothing
\* ("failed": no UV under the locator, or no follicle), the follicle with its
\* Slide_ctrl ("rigged"), or, when setup_follicle_connections fails, the
\* follicle with the parent_grp it was created with ("no_slide").  The groups
\* between the follicle and its Slide_ctrl are the one node position_grp.
StepTwoOutcomes == {"rigged", "no_slide", "failed"}

run_step2_logic(par, name_prefix, outcome) ==
    LET follicle_transform == FreeName(par, <<name_prefix, "follicle", 1>>)
        follicle_shape == <<name_prefix, "follicleShape", follicle_transform[3]>>
        parent_grp == FreeName(par, <<name_prefix, "parent_grp", 1>>)
        position_grp == FreeName(par, <<name_prefix, "position_grp", 0>>)
        slide_ctrl == FreeName(par, <<name_prefix, "Slide_ctrl", 0>>)
        both == (follicle_transform :> World) @@ (follicle_shape :> follicle_transform)
    IN  IF outcome = "failed"
        THEN [par |-> par, follicle |-> NoneRef, control |-> NoneRef]
        ELSE IF outcome = "rigged"
        THEN [par |-> both @@ (position_grp :> follicle_transform)
                          @@ (slide_ctrl :> position_grp) @@ par,
              follicle |-> ShortRef(follicle_transform),
              control |-> ShortRef(slide_ctrl)]
        ELSE [par |-> both @@ (parent_grp :> follicle_transform) @@ par,
              follicle |-> ShortRef(follicle_transform),
              control |-> ShortRef(parent_grp)]

\* cmds.delete raises on a locked node and on a node above a locked node
CanDelete(par, n) == Below(par, n) \cap locked = {}

\* one turn of the loop of on_create_follicles_click
PromoteOne(st, entry, outcome) ==
    IF \/ ~objExists(st.par, ui.selected_mesh_shape)
       \/ ~objExists(st.par, entry.locator)
    THEN st
    ELSE LET made == run_step2_logic(st.par, entry.prefix, outcome)
         IN  IF made.follicle # NoneRef /\ made.control # NoneRef
             THEN [par |-> IF CanDelete(made.par, Resolve(entry.locator))
                           THEN delete(made.par, Resolve(entry.locator))
                           ELSE made.par,
                   follicles |-> Append(st.follicles,
                        [prefix |-> entry.prefix, follicle |-> made.follicle,
                         control |-> made.control,
                         locator_at_creation |-> entry.locator]),
                   created_count |-> st.created_count + 1]
             ELSE [st EXCEPT !.par = made.par]

RECURSIVE PromoteFromStopping(_, _, _)
PromoteFromStopping(i, st, outcomes) ==
    IF i > Len(locators_data) \/ st.created_count < i - 1 THEN st
    ELSE CHOOSE done \in
            {PromoteFromStopping(i + 1, next, outcomes) :
                next \in {PromoteOne(st, locators_data[i], outcomes[i])}} : TRUE

RECURSIVE PromoteFrom(_, _, _)
PromoteFrom(i, st, outcomes) ==
    IF i > Len(locators_data) THEN st
    ELSE CHOOSE done \in
            {PromoteFrom(i + 1, next, outcomes) :
                next \in {PromoteOne(st, locators_data[i], outcomes[i])}} : TRUE

\* _populate_texture_selection_ui: a row and an empty record per follicle
NoTexture(prefix) ==
    [prefix |-> prefix, file_path |-> "none", file_node |-> NoneRef,
     projection_node |-> NoneRef, place2d_node |-> NoneRef,
     place3d_node |-> NoneRef, layered_texture |-> NoNode, material |-> NoneRef,
     layered_texture_node |-> NoNode, material_node |-> NoneRef]

populate_texture_selection_ui(tdata, fdata) ==
    [i \in 1..Len(tdata) |->
        IF tdata[i].prefix \in Keys(fdata) THEN NoTexture(tdata[i].prefix)
        ELSE tdata[i]]
       \o [i \in 1..Len(Without(fdata, Keys(tdata))) |->
              NoTexture(Without(fdata, Keys(tdata))[i].prefix)]

\* the markers of the batch whose own promotion succeeds: mesh shape and
\* locator are there and run_step2_logic returns a follicle and a control
Succeeding(outcomes) ==
    {locators_data[i].prefix : i \in
        {j \in 1..Len(locators_data) :
            /\ objExists(dag, ui.selected_mesh_shape)
            /\ objExists(dag, locators_data[j].locator)
            /\ outcomes[j] # "failed"}}

on_create_follicles_click ==
    \E outcomes \in [1..Len(locators_data) -> StepTwoOutcomes] :
      \E done \in {PromoteFrom(1, [par |-> dag, follicles |-> <<>>,
                                   created_count |-> 0], outcomes)} :
        /\ ui.step2_frame /\ ui.create_follicles_button
        /\ last' = [NoLast EXCEPT
                      !.op = "create_follicles",
                      !.batch = Keys(locators_data),
                      !.succeeding = Succeeding(outcomes)]
        /\ IF ui.selected_mesh_shape = NoneRef \/ locators_data = <<>>
           THEN UNCHANGED <<dag, follicles_data, locators_data, textures_data, ui, session>>
           ELSE /\ dag' = done.par
                /\ follicles_data' = done.follicles
                /\ locators_data' = Without(locators_data, Keys(done.follicles))
                /\ session' = [session EXCEPT !.promoted = @ \cup Keys(done.follicles)]
                /\ IF done.created_count > 0
                   THEN /\ ui' = [ui EXCEPT !.create_follicles_button = FALSE,
                                            !.create_locator_button = FALSE,
                                            !.name_field_enabled = FALSE,
                                            !.step3_frame = TRUE,
                                            !.connect_all_textures_button = TRUE]
                        /\ textures_data' =
                              populate_texture_selection_ui(textures_data, done.follicles)
                   ELSE UNCHANGED <<ui, textures_data>>
        /\ hidden' = hidden \cap DOMAIN dag'
        /\ UNCHANGED <<dg, locked, colorConn, layers>>
        /\ UNCHANGED <<org, textures, call, start, firstLt, slideVars, query, shift, shading, uv, setup>>

\* _on_select_single_texture_click: the dialog gives a file that is there, a
\* file that is gone by the time it is read, or is cancelled
FilePaths == {"good.png", "gone.png"}

on_select_single_texture_click ==
    \E i \in 1..Len(textures_data), selected_file \in FilePaths \cup {"none"} :
        /\ ui.step3_frame
        /\ textures_data' =
              IF selected_file = "none" THEN textures_data
              ELSE [textures_data EXCEPT ![i].file_path = selected_file]
        /\ last' = NoLast
        /\ UNCHANGED <<ui, locators_data, follicles_data, session>>
        /\ UNCHANGED <<dag, hidden, dg, locked, colorConn, layers>>
        /\ UNCHANGED <<org, textures, call, start, firstLt, slideVars, query, shift, shading, uv, setup>>

\* step3_logic.run_step3_logic for one prefix, inside the loop of
\* on_connect_all_textures_click: connect_texture_to_mesh on a mesh with the
\* material Material, then organize_scene_hierarchy.  c is the state the loop
\* threads through.
TextureNodes(par, nodes, name_prefix) ==
    [file_node |-> FreeName(nodes, <<name_prefix, "texture", 0>>),
     place2d_node |-> FreeName(nodes, <<name_prefix, "place2d", 0>>),
     projection_node |-> FreeName(nodes, <<name_prefix, "projection", 0>>),
     alpha_layered_texture_node |->
         FreeName(nodes, <<name_prefix, "alpha_layeredTexture", 0>>),
     alpha_projection_node |-> FreeName(nodes, <<name_prefix, "alpha_projection", 0>>),
     place3d_node |-> FreeName(par, <<name_prefix, "place3d", 0>>)]

run_step3_logic(c, i, follicle_transform) ==
    LET name_prefix == c.tex[i].prefix
        new == TextureNodes(c.par, c.dg, name_prefix)
        top == Node("texture", c.connected + 1)
        linked == ConnectToMaterial(c.conn, c.lay, top, FreshLayeredTexture(c.lay))
        organized == organize_scene_hierarchy(
                        (new.place3d_node :> World) @@ c.par, c.hid, c.mesh,
                        follicle_transform, ShortRef(new.place3d_node), name_prefix)
        created == [c EXCEPT
                      !.par = organized.par, !.hid = organized.hid,
                      !.dg = (new.file_node :> NoNode) @@ (new.place2d_node :> NoNode)
                                @@ (new.projection_node :> top)
                                @@ (new.alpha_layered_texture_node :> NoNode)
                                @@ (new.alpha_projection_node :> NoNode) @@ @,
                      !.conn = linked.conn, !.lay = linked.layers,
                      !.connected = @ + 1]
    IN  IF ~objExists(c.par, c.mesh) \/ c.tex[i].file_path # "good.png"
        THEN [c EXCEPT !.all_successful = FALSE]
        ELSE IF organized.outcome = "raised"
        THEN [created EXCEPT !.raised = TRUE]
        ELSE [created EXCEPT
                !.tex[i].file_node = ShortRef(new.file_node),
                !.tex[i].projection_node = ShortRef(new.projection_node),
                !.tex[i].place2d_node = ShortRef(new.place2d_node),
                !.tex[i].place3d_node = ShortRef(new.place3d_node),
                !.tex[i].layered_texture_node = linked.lt,
                !.tex[i].material_node = ShortRef(Material),
                !.mesh = organized.result]

\* the prefixes whose texture the session has put into the stack, and those
\* for which it has done so again
Noted(c, r, prefix) ==
    IF r.connected > c.connected
    THEN [r EXCEPT !.inserted = @ \cup {prefix},
                   !.reinserted = IF prefix \in c.inserted THEN @ \cup {prefix} ELSE @]
    ELSE r

\* one turn of the loop of on_connect_all_textures_click; an exception of
\* run_step3_logic ends the handler
ConnectOne(c, i) ==
    IF c.raised \/ c.tex[i].file_path = "none" THEN c
    ELSE IF c.tex[i].prefix \notin Keys(follicles_data)
    THEN [c EXCEPT !.all_successful = FALSE]
    ELSE CHOOSE done \in
            {Noted(c, r, c.tex[i].prefix) : r \in
            {run_step3_logic(now, i, Entry(follicles_data, now.tex[i].prefix).follicle) :
                now \in {c}}} : TRUE

\* the prefixes the loop does not skip: a file is selected, the Attachment is
\* recorded; the file selected is one the host can read and the mesh exists
Chosen ==
    {textures_data[i].prefix : i \in
        {j \in 1..Len(textures_data) :
            /\ textures_data[j].file_path = "good.png"
            /\ textures_data[j].prefix \in Keys(follicles_data)
            /\ objExists(dag, ui.selected_mesh_transform)}}

RECURSIVE ConnectFrom(_, _)
ConnectFrom(i, c) ==
    IF i > Len(c.tex) THEN c
    ELSE CHOOSE done \in
            {ConnectFrom(i + 1, next) : next \in {ConnectOne(c, i)}} : TRUE

on_connect_all_textures_click ==
    \E done \in {ConnectFrom(1, [par |-> dag, hid |-> hidden, dg |-> dg,
                                 conn |-> colorConn, lay |-> layers,
                                 tex |-> textures_data,
                                 mesh |-> ui.selected_mesh_transform,
                                 all_successful |-> TRUE, raised |-> FALSE,
                                 connected |-> session.connected,
                                 inserted |-> session.inserted,
                                 reinserted |-> session.reinserted])} :
        /\ ui.step3_frame /\ ui.connect_all_textures_button
        /\ session.connected < MaxConnected
        /\ last' = IF ui.selected_mesh_transform = NoneRef \/ textures_data = <<>>
                   THEN NoLast
                   ELSE [NoLast EXCEPT
                           !.op = "connect",
                           !.gone = {q \in Chosen : ~objExists(dag, Entry(follicles_data, q).follicle)},
                           !.ready = {q \in Chosen : objExists(dag, Entry(follicles_data, q).follicle)},
                           !.added = done.connected - session.connected,
                           !.skipped = {textures_data[i].prefix : i \in
                                           {j \in 1..Len(textures_data) :
                                               textures_data[j].file_path = "none"}},
                           !.raised = done.raised]
        /\ IF ui.selected_mesh_transform = NoneRef \/ textures_data = <<>>
           THEN UNCHANGED <<dag, hidden, dg, colorConn, layers, textures_data, ui,
                            locators_data, follicles_data, session>>
           ELSE /\ dag' = done.par
                /\ hidden' = done.hid
                /\ dg' = done.dg
                /\ colorConn' = done.conn
                /\ layers' = done.lay
                /\ IF done.all_successful /\ ~done.raised
                   THEN /\ ui' = FreshUi
                        /\ locators_data' = <<>>
                        /\ follicles_data' = <<>>
                        /\ textures_data' = <<>>
                        /\ session' = [Forget(session) EXCEPT
                                          !.connected = done.connected]
                   ELSE /\ ui' = [ui EXCEPT !.selected_mesh_transform = done.mesh]
                        /\ textures_data' = done.tex
                        /\ session' = [session EXCEPT
                                          !.connected = done.connected,
                                          !.inserted = done.inserted,
                                          !.reinserted = done.reinserted]
                        /\ UNCHANGED <<locators_data, follicles_data>>
        /\ UNCHANGED locked
        /\ UNCHANGED <<org, textures, call, start, firstLt, slideVars, query, shift, shading, uv, setup>>

\* on_delete_tool_nodes_click.  The nodes are collected in the order of the
\* code, each once; a texture's layeredTexture is looked up under
\* 'layered_texture' and its material under 'material'.
RECURSIVE Unique(_)
Unique(seq) ==
    IF seq = <<>> THEN <<>>
    ELSE LET front == Unique(SubSeq(seq, 1, Len(seq) - 1))
             node == seq[Len(seq)]
         IN  IF \E j \in 1..Len(front) : front[j] = node THEN front
             ELSE Append(front, node)

RECURSIVE Flatten(_)
Flatten(seqs) == IF seqs = <<>> THEN <<>> ELSE Head(seqs) \o Flatten(Tail(seqs))

\* name and cmds.objExists(name)
Found(par, nodes, ref) ==
    ref # NoneRef /\ (objExists(par, ref) \/ Resolve(ref) \in DOMAIN nodes)

Existing(par, nodes, refs) == SelectSeq(refs, LAMBDA ref : Found(par, nodes, ref))

FollicleTargets(par, nodes, e) ==
    LET control_found == Found(par, nodes, e.control)
        is_child_of_deleted_group ==
            /\ control_found
            /\ e.follicle # e.control
            /\ Resolve(e.follicle) \in Below(par, Resolve(e.control))
    IN  (IF control_found THEN <<e.control>> ELSE <<>>)
           \o (IF Found(par, nodes, e.follicle) /\ ~is_child_of_deleted_group
               THEN <<e.follicle>> ELSE <<>>)

TextureTargetsMaterialNode(par, nodes, e) ==
    Existing(par, nodes, <<e.material_node, e.file_node, e.projection_node,
                           e.place2d_node, e.place3d_node>>)

TextureTargets(par, nodes, e) ==
    Existing(par, nodes, <<e.material, e.file_node, e.projection_node,
                           e.place2d_node, e.place3d_node>>)

nodes_to_delete(par, nodes) ==
    Unique(Existing(par, nodes,
                    [i \in 1..Len(locators_data) |-> locators_data[i].locator])
           \o Flatten([i \in 1..Len(follicles_data) |->
                          FollicleTargets(par, nodes, follicles_data[i])])
           \o Flatten([i \in 1..Len(textures_data) |->
                          TextureTargets(par, nodes, textures_data[i])]))

\* the fifth key of texture_nodes_keys
layered_textures_to_delete(lay) ==
    {textures_data[i].layered_texture : i \in 1..Len(textures_data)} \cap DOMAIN lay

\* deleting a node takes its connections with it
Unplug(lay, src) ==
    [lt \in DOMAIN lay |->
        [color |-> [j \in {k \in DOMAIN lay[lt].color : lay[lt].color[k] # src} |->
                       lay[lt].color[j]],
         alpha |-> [j \in {k \in DOMAIN lay[lt].alpha : lay[lt].alpha[k] # src} |->
                       lay[lt].alpha[j]]]]

\* one turn of the deleting loop: cmds.delete in a try block
DeleteOne(d, ref) ==
    LET n == Resolve(ref)
    IN  IF n \in DOMAIN d.par
        THEN IF CanDelete(d.par, n)
             THEN [d EXCEPT !.par = delete(d.par, n), !.deleted_count = @ + 1]
             ELSE [d EXCEPT !.failed = @ + 1]
        ELSE IF n \in DOMAIN d.dg
        THEN IF n \in locked THEN [d EXCEPT !.failed = @ + 1]
             ELSE [d EXCEPT !.dg = [m \in (DOMAIN d.dg) \ {n} |-> d.dg[m]],
                            !.lay = IF d.dg[n] = NoNode THEN @ ELSE Unplug(@, d.dg[n]),
                            !.deleted_count = @ + 1]
        ELSE d

RECURSIVE DeleteFrom(_, _, _)
DeleteFrom(i, d, targets) ==
    IF i > Len(targets) THEN d
    ELSE CHOOSE done \in
            {DeleteFrom(i + 1, next, targets) : next \in {DeleteOne(d, targets[i])}} : TRUE

\* what the records name when the button is pressed
RecordedNodes ==
    {Resolve(r) : r \in
        ({locators_data[i].locator : i \in 1..Len(locators_data)}
         \cup UNION {{follicles_data[i].follicle, follicles_data[i].control} :
                        i \in 1..Len(follicles_data)}
         \cup UNION {{textures_data[i].file_node, textures_data[i].projection_node,
                      textures_data[i].place2d_node, textures_data[i].place3d_node} :
                        i \in 1..Len(textures_data)}) \ {NoneRef}}

RecordedLayeredTextures ==
    UNION {{textures_data[i].layered_texture, textures_data[i].layered_texture_node} :
              i \in 1..Len(textures_data)} \ {NoNode}

on_delete_tool_nodes_click ==
    \E targets \in {nodes_to_delete(dag, dg)} :
      \E done \in {DeleteFrom(1, [par |-> dag, dg |-> dg, lay |-> layers,
                                  deleted_count |-> 0, failed |-> 0], targets)} :
        LET gone == layered_textures_to_delete(layers)
            before == (DOMAIN dag) \cup (DOMAIN dg)
            after == (DOMAIN done.par) \cup (DOMAIN done.dg)
        IN  /\ dag' = done.par
            /\ dg' = done.dg
            /\ hidden' = hidden \cap DOMAIN done.par
            /\ layers' = [lt \in (DOMAIN done.lay) \ gone |-> done.lay[lt]]
            /\ colorConn' = IF colorConn \in gone THEN NoNode ELSE colorConn
            /\ last' = [NoLast EXCEPT
                          !.op = "delete",
                          !.changed = after # before,
                          !.recorded = RecordedNodes \cap before,
                          !.missing = RecordedNodes \ before,
                          !.recorded_lt = RecordedLayeredTextures \cap DOMAIN layers,
                          !.failed = done.failed,
                          !.deleted_count = done.deleted_count + Cardinality(gone),
                          !.removed = Cardinality(
                              {Resolve(targets[j]) : j \in 1..Len(targets)} \ after)
                              + Cardinality(gone)]
            /\ ui' = FreshUi
            /\ locators_data' = <<>>
            /\ follicles_data' = <<>>
            /\ textures_data' = <<>>
            /\ session' = Forget(session)
            /\ UNCHANGED locked
            /\ UNCHANGED <<org, textures, call, start, firstLt, slideVars, query, shift, shading, uv, setup>>

\* The user, between two clicks: locks a follicle (one node at most is
\* locked), or deletes a locator or a follicle
UserNodes == {n \in DOMAIN dag : n[2] \in {"locator", "follicle"}}

UserLocksNode ==
    \E n \in UserNodes :
        /\ locked = {}
        /\ n[2] = "follicle"
        /\ locked' = {n}
        /\ last' = NoLast
        /\ UNCHANGED <<ui, locators_data, follicles_data, textures_data, session>>
        /\ UNCHANGED <<dag, hidden, dg, colorConn, layers>>
        /\ UNCHANGED <<org, textures, call, start, firstLt, slideVars, query, shift, shading, uv, setup>>

UserDeletesNode ==
    \E n \in UserNodes \ locked :
        /\ CanDelete(dag, n)
        /\ dag' = delete(dag, n)
        /\ hidden' = hidden \cap DOMAIN dag'
        /\ last' = NoLast
        /\ UNCHANGED <<ui, locators_data, follicles_data, textures_data, session>>
        /\ UNCHANGED <<dg, locked, colorConn, layers>>
        /\ UNCHANGED <<org, textures, call, start, firstLt, slideVars, query, shift, shading, uv, setup>>

SessionNext ==
    \/ on_window_close
    \/ on_select_mesh_click
    \/ on_name_changed
    \/ on_create_locator_click
    \/ on_create_follicles_click
    \/ on_select_single_texture_click
    \/ on_connect_all_textures_click
    \/ on_delete_tool_nodes_click
    \/ UserLocksNode
    \/ UserDeletesNode

-----------------------------------------------------------------------------
(* step1_logic.get_world_space_at_uv and step2_logic.get_uv_at_point: a
   transient evaluation node (uvPin, closestPointOnMesh) is created, wired to
   the mesh, read and deleted.  A call is planned by what the host does: the
   host call that raises (0 for none), the output attribute the mesh shape
   has, and whether the read gives a value.  The state of a call is the
   non-DAG nodes of the scene, the node the call created, the number of
   cmds.delete calls made on it, and whether the call has returned. *)

HostCalls == 1..7
MeshOutputs == {"worldMesh", "outMesh", "none"}

Plans == [fail_at : {0} \cup HostCalls, output : MeshOutputs, value : BOOLEAN]

QueryStart(nodes) ==
    [nodes |-> nodes, node |-> NoNode, deletes |-> 0, returned |-> FALSE,
     result |-> "None"]

\* cmds.createNode(type): the host gives the first free name of the type
createNode(t, type, k, plan) ==
    IF t.returned THEN t
    ELSE IF plan.fail_at = k THEN [t EXCEPT !.returned = TRUE]
    ELSE LET new == Node(type,
                      CHOOSE i \in 1..(Cardinality(t.nodes) + 1) :
                         /\ Node(type, i) \notin t.nodes
                         /\ \A j \in 1..(i - 1) : Node(type, j) \in t.nodes)
         IN  [t EXCEPT !.node = new, !.nodes = @ \cup {new}]

\* any other host call inside the try block: it raises or the call goes on;
\* `except Exception` warns and the function returns None
HostCall(t, k, plan) ==
    IF ~t.returned /\ plan.fail_at = k THEN [t EXCEPT !.returned = TRUE] ELSE t

\* the else branch of the output attribute test: delete the node, return None
NoMeshOutput(t, plan) ==
    IF ~t.returned /\ plan.output = "none"
    THEN IF t.node # NoNode /\ t.node \in t.nodes
         THEN [t EXCEPT !.nodes = @ \ {t.node}, !.deletes = @ + 1, !.returned = TRUE]
         ELSE [t EXCEPT !.returned = TRUE]
    ELSE t

\* the value read at the end
ReadResult(t, k, plan) ==
    IF t.returned THEN t
    ELSE IF plan.fail_at = k THEN [t EXCEPT !.returned = TRUE]
    ELSE [t EXCEPT !.returned = TRUE,
                   !.result = IF plan.value THEN "value" ELSE "None"]

FinallyNothing(t) == t

\* finally: if node and cmds.objExists(node): cmds.delete(node)
Finally(t) ==
    IF t.node # NoNode /\ t.node \in t.nodes
    THEN [t EXCEPT !.nodes = @ \ {t.node}, !.deletes = @ + 1]
    ELSE t

\* step1_logic.get_world_space_at_uv on a mesh shape that exists: createNode,
\* the output test with the connection of the mesh, the connection of
\* worldMatrix, the two setAttr, the getAttr
get_world_space_at_uv(nodes, plan) ==
    CHOOSE done \in
        {Finally(t6) : t6 \in
        {ReadResult(t5, 6, plan) : t5 \in
        {HostCall(t4, 5, plan) : t4 \in
        {HostCall(t3, 4, plan) : t3 \in
        {HostCall(t2, 3, plan) : t2 \in
        {NoMeshOutput(t1b, plan) : t1b \in
        {HostCall(t1, 2, plan) : t1 \in
        {createNode(t0, "uvPin", 1, plan) : t0 \in {QueryStart(nodes)}}}}}}}}} : TRUE

\* step2_logic.get_uv_at_point on a mesh shape that exists: createNode,
\* listRelatives, the connection of worldMatrix, the output test, the
\* connection of the mesh, the three setAttr, the two getAttr
get_uv_at_point(nodes, plan) ==
    CHOOSE done \in
        {Finally(t7) : t7 \in
        {ReadResult(t6, 7, plan) : t6 \in
        {HostCall(t5, 6, plan) : t5 \in
        {HostCall(t4, 5, plan) : t4 \in
        {NoMeshOutput(t3b, plan) : t3b \in
        {HostCall(t3, 4, plan) : t3 \in
        {HostCall(t2, 3, plan) : t2 \in
        {HostCall(t1, 2, plan) : t1 \in
        {createNode(t0, "closestPointOnMesh", 1, plan) :
            t0 \in {QueryStart(nodes)}}}}}}}}}} : TRUE

NoQuery == [fn |-> "none", plan |-> [fail_at |-> 0, output |-> "none", value |-> FALSE],
            before |-> {}, nodes |-> {}, node |-> NoNode, deletes |-> 0,
            result |-> "None"]

Asked(fn, plan, before, done) ==
    [fn |-> fn, plan |-> plan, before |-> before, nodes |-> done.nodes,
     node |-> done.node, deletes |-> done.deletes, result |-> done.result]

WorldSpaceQuery ==
    \E plan \in Plans :
      \E done \in {get_world_space_at_uv(query.nodes, plan)} :
        /\ query' = Asked("get_world_space_at_uv", plan, query.nodes, done)
        /\ UNCHANGED <<stackVars, slideVars, orgVars, sessVars, shift, shading, uv, setup>>

UvQuery ==
    \E plan \in Plans :
      \E done \in {get_uv_at_point(query.nodes, plan)} :
        /\ query' = Asked("get_uv_at_point", plan, query.nodes, done)
        /\ UNCHANGED <<stackVars, slideVars, orgVars, sessVars, shift, shading, uv, setup>>

\* nodes of the two types that are the user's own
UserQueryNodes == SUBSET {Node("uvPin", 1), Node("closestPointOnMesh", 1)}

QueryNext ==
    \/ WorldSpaceQuery
    \/ UvQuery

-----------------------------------------------------------------------------
(* shift_layers_down stopped by an exception.  The loop changes the scene by
   one host call at a time: for i = max_index down to 0, when inputs[i].color
   has a source, disconnectAttr takes it off and connectAttr puts it on
   inputs[i+1].color, then the same for inputs[i].alpha.  Neither
   shift_layers_down nor its callers catch an exception of these calls, so a
   call that raises leaves the layeredTexture as the calls before it made
   it. *)

MaxShifted == 1

\* the host calls that change the layer at index i, in the order of the code
MovesAt(layer, i) ==
    (IF i \in DOMAIN layer.color
     THEN <<[kind |-> "disconnectAttr", channel |-> "color", index |-> i,
             source |-> layer.color[i]],
            [kind |-> "connectAttr", channel |-> "color", index |-> i + 1,
             source |-> layer.color[i]]>>
     ELSE <<>>)
    \o
    (IF i \in DOMAIN layer.alpha
     THEN <<[kind |-> "disconnectAttr", channel |-> "alpha", index |-> i,
             source |-> layer.alpha[i]],
            [kind |-> "connectAttr", channel |-> "alpha", index |-> i + 1,
             source |-> layer.alpha[i]]>>
     ELSE <<>>)

RECURSIVE Moves(_, _)
Moves(layer, i) ==
    IF i < 0 THEN <<>> ELSE MovesAt(layer, i) \o Moves(layer, i - 1)

disconnectAttr(plugs, i) == [j \in (DOMAIN plugs) \ {i} |-> plugs[j]]

HostMove(layer, move) ==
    LET plugs == IF move.channel = "color" THEN layer.color ELSE layer.alpha
        moved == IF move.kind = "disconnectAttr"
                 THEN disconnectAttr(plugs, move.index)
                 ELSE connectAttr(plugs, move.index, move.source)
    IN  IF move.channel = "color"
        THEN [layer EXCEPT !.color = moved]
        ELSE [layer EXCEPT !.alpha = moved]

RECURSIVE AfterMoves(_, _, _)
AfterMoves(layer, moves, done) ==
    IF done = 0 \/ moves = <<>> THEN layer
    ELSE AfterMoves(HostMove(layer, Head(moves)), Tail(moves), done - 1)

NoShift == [stage |-> "none", before |-> EmptyLayer, done |-> 0, moves |-> 0]

\* connect_texture_to_mesh / connect_texture_using_uvs in the branch of an
\* existing layeredTexture, when the host call after `done` changes of
\* shift_layers_down raises: the new texture is not connected
shift_layers_down_raises ==
    /\ shift.stage = "none"
    /\ Len(textures) < MaxInserts
    /\ IsLayeredTexture(colorConn)
    /\ colorConn \in DOMAIN layers
    /\ \E max_layer_index \in {get_max_layer_index(layers[colorConn])} :
         /\ max_layer_index >= 0
         /\ max_layer_index <= MaxShifted
         /\ \E moves \in {Moves(layers[colorConn], max_layer_index)} :
            \E done \in 0..(Len(moves) - 1) :
              /\ layers' = [layers EXCEPT
                              ![colorConn] = AfterMoves(layers[colorConn], moves, done)]
              /\ shift' = [stage |-> "raised", before |-> layers[colorConn],
                           done |-> done, moves |-> Len(moves)]
    /\ call' = NoCall
    /\ UNCHANGED <<colorConn, textures, start, firstLt>>
    /\ UNCHANGED <<slideVars, orgVars, sessVars, query, shading, uv, setup>>

ShiftNext ==
    \/ connect_texture_to_mesh
    \/ connect_texture_using_uvs
    \/ shift_layers_down_raises

-----------------------------------------------------------------------------
(* connect_texture_to_mesh / connect_texture_using_uvs: the material the
   texture is connected to and its color attribute.  The two functions hold
   the same lines.  A shading group is known by the node that feeds its
   surfaceShader; a node by its kind, the color attributes it has and a
   number.  The scene holds what listSets returns for the mesh transform,
   what listConnections returns for its shape, and initialShadingGroup. *)

MaxCreated == 2

ColorAttrs == {"baseColor", "color", "diffuseColor"}

Shader(kind, attrs, id) == [kind |-> kind, attrs |-> attrs, id |-> id]
NoShader == Shader("none", {}, 0)
Lambert1 == Shader("material", {"color"}, 1)
\* a node that cmds.ls(materials=True) does not list
Utility == Shader("other", {"color"}, 2)
\* shadingNode('lambert', asShader=True, name="<mesh>_autoMat#")
AutoMat(k) == Shader("material", {"color"}, 10 + k)

NoInitialSG == [exists |-> FALSE, member |-> FALSE, shader |-> NoShader]

\* the loops over shading groups that fill assigned_materials
RECURSIVE AssignedMaterials(_, _)
AssignedMaterials(sgs, assigned_materials) ==
    IF sgs = <<>> THEN assigned_materials
    ELSE LET mat_node == Head(sgs)
             found == /\ mat_node # NoShader
                      /\ mat_node.kind = "material"
                      /\ \A i \in 1..Len(assigned_materials) :
                            assigned_materials[i] # mat_node
         IN  AssignedMaterials(Tail(sgs),
                IF found THEN Append(assigned_materials, mat_node)
                ELSE assigned_materials)

\* Method 1, and Method 2 when Method 1 found nothing
FindAssigned(scene) ==
    LET from_sets == AssignedMaterials(scene.from_sets, <<>>)
    IN  IF from_sets # <<>> THEN from_sets
        ELSE AssignedMaterials(scene.from_shape, <<>>)

\* the material of initialShadingGroup, for a mesh that is a member of it
InitialSG(scene) ==
    LET initial_sg == scene.initial_sg
        lambert1_as_fallback ==
            IF initial_sg.shader.kind = "material" THEN initial_sg.shader
            ELSE NoShader
    IN  IF initial_sg.exists /\ initial_sg.member /\ lambert1_as_fallback # NoShader
        THEN lambert1_as_fallback
        ELSE NoShader

\* the four host calls of the try block that creates and assigns a Lambert;
\* when one raises RuntimeError the nodes created are deleted again
CreateCalls == 1..4

CreateNothing(scene, fail_at) ==
    [scene |-> scene, material |-> NoShader]

CreateMaterial(scene, fail_at) ==
    IF fail_at \in CreateCalls
    THEN [scene |-> scene, material |-> NoShader]
    ELSE LET new_material_node == AutoMat(scene.created + 1)
         IN  [scene |-> [scene EXCEPT
                            !.from_sets = <<new_material_node>>,
                            !.from_shape = <<new_material_node>>,
                            !.initial_sg.member = FALSE,
                            !.created = @ + 1],
              material |-> new_material_node]

FindMaterial(scene, fail_at) ==
    LET assigned_materials == FindAssigned(scene)
    IN  IF assigned_materials # <<>>
        THEN [scene |-> scene, material |-> assigned_materials[1]]
        ELSE IF InitialSG(scene) # NoShader
             THEN [scene |-> scene, material |-> InitialSG(scene)]
             ELSE CreateMaterial(scene, fail_at)

ColorAttrColorFirst(material) ==
    IF "color" \in material.attrs THEN "color"
    ELSE IF "baseColor" \in material.attrs THEN "baseColor"
    ELSE IF "diffuseColor" \in material.attrs THEN "diffuseColor"
    ELSE "none"

\* material_color_attr
ColorAttr(material) ==
    IF "baseColor" \in material.attrs THEN "baseColor"
    ELSE IF "color" \in material.attrs THEN "color"
    ELSE IF "diffuseColor" \in material.attrs THEN "diffuseColor"
    ELSE "none"

NoShading ==
    [from_sets |-> <<>>, from_shape |-> <<>>, initial_sg |-> NoInitialSG,
     created |-> 0, fn |-> "none", fail_at |-> 0, before |-> <<>>,
     found |-> <<>>, material |-> NoShader, color_attr |-> "none",
     result |-> "none"]

\* The call up to the test of material_color_attr: "no_material" and
\* "no_color_attr" are the two returns of six None values, "connecting" the
\* rest of the function
ResolveMaterial(fn, fail_at) ==
    \E r \in {FindMaterial(shading, fail_at)} :
        /\ shading.created < MaxCreated
        /\ shading' = [r.scene EXCEPT
              !.fn = fn, !.fail_at = fail_at,
              !.before = <<[from_sets |-> shading.from_sets,
                            from_shape |-> shading.from_shape,
                            initial_sg |-> shading.initial_sg]>>,
              !.found = FindAssigned(shading),
              !.material = r.material,
              !.color_attr = IF r.material = NoShader THEN "none"
                             ELSE ColorAttr(r.material),
              !.result = IF r.material = NoShader THEN "no_material"
                         ELSE IF ColorAttr(r.material) = "none" THEN "no_color_attr"
                         ELSE "connecting"]
        /\ UNCHANGED <<stackVars, slideVars, orgVars, sessVars, query, shift, uv, setup>>

connect_texture_to_mesh_material ==
    \E fail_at \in {0} \cup CreateCalls :
        ResolveMaterial("connect_texture_to_mesh", fail_at)

connect_texture_using_uvs_material ==
    \E fail_at \in {0} \cup CreateCalls :
        ResolveMaterial("connect_texture_using_uvs", fail_at)

\* the user assigns another material to the mesh
Materials == {Shader("material", attrs, 3) : attrs \in SUBSET ColorAttrs}

UserAssignsMaterial ==
    \E m \in Materials \cup {Lambert1} :
        /\ shading' = [shading EXCEPT !.from_sets = <<m>>, !.from_shape = <<m>>,
                                      !.initial_sg.member = FALSE,
                                      !.fn = "none", !.fail_at = 0, !.before = <<>>,
                                      !.found = <<>>, !.material = NoShader,
                                      !.color_attr = "none", !.result = "none"]
        /\ UNCHANGED <<stackVars, slideVars, orgVars, sessVars, query, shift, uv, setup>>

MaterialNext ==
    \/ connect_texture_to_mesh_material
    \/ connect_texture_using_uvs_material
    \/ UserAssignsMaterial

-----------------------------------------------------------------------------
(* step3_uv_logic: the UV placement mode.  connect_texture_using_uvs puts the
   file node itself on the color stack and builds the UV reference groups
   when the follicle has a Slide_ctrl below it; run_step3_uv_logic then calls
   organize_scene_hierarchy with None for the projector. *)

MaxUvCalls == 2

\* the loop over listRelatives(follicle_transform, allDescendents=True,
\* type="transform") that looks for "_Slide_ctrl"
SlideCtrlOf(par, follicle_transform) ==
    IF ~objExists(par, follicle_transform) THEN NoneRef
    ELSE LET found == {n \in Below(par, Resolve(follicle_transform)) :
                          n[2] = "Slide_ctrl"}
         IN  IF found = {} THEN NoneRef ELSE ShortRef(CHOOSE n \in found : TRUE)

\* create_texture_uv_setup: <prefix>_UV_Ref with the rotate, reference and
\* control groups and the group of the constraints below it
create_texture_uv_setup(par, prefix) ==
    LET uv_ref == FreeName(par, <<prefix, "UV_Ref", 0>>)
        tex_rotate == FreeName(par, <<prefix, "Texture_Rotate", 0>>)
        tex_ref == FreeName(par, <<prefix, "Texture_Ref", 0>>)
        tex_ctrl == FreeName(par, <<prefix, "Texture_Control", 0>>)
        constraints_grp == FreeName(par, <<prefix, "Constraints", 0>>)
    IN  [par |-> (uv_ref :> World) @@ (tex_rotate :> uv_ref) @@ (tex_ref :> tex_rotate)
                    @@ (tex_ctrl :> uv_ref) @@ (constraints_grp :> uv_ref) @@ par,
         uv_ref |-> ShortRef(uv_ref)]

\* step3_logic.hide_slide_ctrl_attributes and step3_logic.setup_sequence_texture,
\* which run_step3_uv_logic calls: they set attributes of the Slide_ctrl and
\* of the file node and leave the nodes and the stack as they are
hide_slide_ctrl_attributes(s, slide_ctrl) == s
setup_sequence_texture(s, file_node, slide_ctrl) == s

NullUv(s, mesh_transform) ==
    [s EXCEPT !.file_node = NoneRef, !.place2d_node = NoneRef,
              !.layered_texture = NoNode, !.top = NoNode, !.mesh = mesh_transform]

\* connect_texture_using_uvs, on a mesh whose material has a color attribute
connect_using_uvs(s, mesh_transform, image_file_path, name_prefix, follicle_transform, outcome) ==
    LET file_node == FreeName(s.dg, <<name_prefix, "texture", 0>>)
        place2d_node == FreeName(s.dg, <<name_prefix, "place2d", 0>>)
        top == Node("texture", s.inserted + 1)
        slide_ctrl == SlideCtrlOf(s.par, follicle_transform)
        tex_ref_setup == create_texture_uv_setup(s.par, name_prefix)
        linked == ConnectToMaterial(s.conn, s.lay, top, FreshLayeredTexture(s.lay))
        texture_ctrl_grp_name == ShortRef(Texture_ctrl_grp(name_prefix))
    IN  IF ~objExists(s.par, mesh_transform) \/ image_file_path # "good.png"
        THEN NullUv(s, mesh_transform)
        ELSE IF linked.branch = "fresh" /\ outcome = "link_fails"
        THEN NullUv(s, mesh_transform)
        ELSE [s EXCEPT
                !.par = IF slide_ctrl = NoneRef THEN s.par
                        ELSE IF objExists(tex_ref_setup.par, texture_ctrl_grp_name)
                        THEN parent(tex_ref_setup.par, tex_ref_setup.uv_ref,
                                    texture_ctrl_grp_name)
                        ELSE tex_ref_setup.par,
                !.dg = (file_node :> top) @@ (place2d_node :> NoNode) @@ s.dg,
                !.conn = linked.conn, !.lay = linked.layers,
                !.inserted = s.inserted + 1,
                !.file_node = ShortRef(file_node),
                !.place2d_node = ShortRef(place2d_node),
                !.layered_texture = linked.lt, !.top = top,
                !.mesh = mesh_transform]

\* run_step3_uv_logic.  The second cmds.parent of the UV_Ref group is tried
\* only when RIG and the control group exist, which the organizer, called
\* without projector, does not bring about; where they exist already the
\* group is under the control group by then and the failure is caught.
run_step3_uv_logic(s, mesh_transform, image_file_path, name_prefix, follicle_transform, is_sequence, outcome) ==
    LET connected == connect_using_uvs(s, mesh_transform, image_file_path,
                                       name_prefix, follicle_transform, outcome)
        slide_ctrl == SlideCtrlOf(connected.par, follicle_transform)
        sequenced == IF is_sequence /\ slide_ctrl # NoneRef
                     THEN setup_sequence_texture(connected, connected.file_node, slide_ctrl)
                     ELSE connected
        hid == IF slide_ctrl # NoneRef
               THEN hide_slide_ctrl_attributes(sequenced, slide_ctrl)
               ELSE sequenced
        organized == organize_scene_hierarchy(hid.par, hid.hid, mesh_transform,
                                              follicle_transform, NoneRef, name_prefix)
    IN  IF image_file_path = "none" THEN NullUv(s, mesh_transform)
        ELSE IF connected.file_node = NoneRef THEN NullUv(s, mesh_transform)
        ELSE IF follicle_transform = NoneRef THEN hid
        ELSE [hid EXCEPT !.par = organized.par, !.hid = organized.hid,
                         !.mesh = organized.result]

NoUv == [fn |-> "none", args |-> <<>>, before |-> NoScene, slide_ctrl |-> NoneRef,
         file_node |-> NoneRef, layered_texture |-> NoNode, top |-> NoNode,
         mesh |-> NoneRef]

UvConnect ==
    \E prefix \in Prefixes, image \in FilePaths \cup {"none"} :
      \E f \in FollicleRefs(prefix), is_sequence \in BOOLEAN :
        \E outcome \in {"ok", "link_fails"} :
          \E r \in {run_step3_uv_logic(
                      [par |-> dag, hid |-> hidden, dg |-> dg, conn |-> colorConn,
                       lay |-> layers, inserted |-> Len(textures),
                       file_node |-> NoneRef, place2d_node |-> NoneRef,
                       layered_texture |-> NoNode, top |-> NoNode, mesh |-> NoneRef],
                      ShortRef(Mesh), image, prefix, f, is_sequence, outcome)} :
            /\ Len(textures) < MaxUvCalls
            /\ outcome = "link_fails" => colorConn = NoNode
            /\ dag' = r.par
            /\ hidden' = r.hid
            /\ dg' = r.dg
            /\ colorConn' = r.conn
            /\ layers' = r.lay
            /\ textures' = IF r.file_node = NoneRef THEN textures
                           ELSE Append(textures, r.top)
            /\ uv' = [fn |-> "run_step3_uv_logic",
                      args |-> <<ShortRef(Mesh), image, prefix, f, outcome>>,
                      before |-> dag, slide_ctrl |-> SlideCtrlOf(dag, f),
                      file_node |-> r.file_node, layered_texture |-> r.layered_texture,
                      top |-> r.top, mesh |-> r.mesh]
            /\ UNCHANGED <<call, start, firstLt, org>>
            /\ UNCHANGED <<ui, locators_data, follicles_data, textures_data, locked,
                           last, session>>
            /\ UNCHANGED <<slideVars, query, shift, shading, setup>>

\* a scene with the Attachments of two prefixes, the first with its
\* Slide_ctrl when `rigged`
UvScene(groups, rigged) ==
    IF rigged
    THEN (<<<<"A">>, "position_grp", 0>> :> FollicleOf(<<"A">>))
            @@ (<<<<"A">>, "Slide_ctrl", 0>> :> <<<<"A">>, "position_grp", 0>>)
            @@ Scene(groups, World)
    ELSE Scene(groups, World)

\* the user deletes the mesh, an Attachment or its Slide_ctrl between calls
UvUserDeletes ==
    \E n \in {Mesh, FollicleOf(<<"A">>), <<<<"A">>, "Slide_ctrl", 0>>} :
        /\ n \in DOMAIN dag
        /\ dag' = delete(dag, n)
        /\ hidden' = hidden \cap DOMAIN dag'
        /\ uv' = NoUv
        /\ UNCHANGED <<org, stackVars, slideVars, sessVars, query, shift, shading, setup>>

UvNext ==
    \/ UvConnect
    \/ UvUserDeletes

-----------------------------------------------------------------------------
(* step2_logic.setup_follicle_connections, host call by host call.  The body
   is one try block: an exception of any host call ends it in the handler,
   which returns (None, None) and leaves what was built so far.  The calls
   are grouped in stages; a plan names the stage whose first call raises
   (0: none) and what cmds.circle and cmds.joint return. *)

MaxRigs == 1

Stages == <<"matrix_nodes", "follicle_inputs", "position_grp", "Invert_grp",
            "circle", "parent_ctrl", "Precision", "uv_chain", "zero_ctrl",
            "joint", "parent_joint", "zero_joint", "curve_cvs">>

RigPlans == [fail_at : 0..Len(Stages), circle : {"made", "empty"},
             joint : {"made", "empty"}]

\* local values of the joint: where cmds.joint put it, what cmds.parent makes
\* of them to keep the joint in place, and what the three setAttr calls write
JointAtOrigin == [translate |-> "zero", rotate |-> "zero", jointOrient |-> "zero"]
JointKeptInPlace == [translate |-> "offset", rotate |-> "offset", jointOrient |-> "zero"]
NoJoint == [translate |-> "none", rotate |-> "none", jointOrient |-> "none"]

ZeroJoint(j) == [translate |-> "zero", rotate |-> "zero", jointOrient |-> "zero"]

\* one stage of the try block on s = [par, nodes, position_grp, invert_grp,
\* slide_ctrl, bind_joint, joint, done, raised, value]
RigStage(s, k, follicle_transform, base_name, plan) ==
    LET stage == Stages[k]
    IN  IF stage = "matrix_nodes"
        THEN [s EXCEPT !.nodes = @ \cup {"compMat", "multMat", "decomMat"}]
        ELSE IF stage = "follicle_inputs"
        THEN [s EXCEPT !.nodes = @ \cup {"follicle_rewired"}]
        ELSE IF stage = "position_grp"
        THEN LET g == group(s.par, <<base_name, "position_grp", 0>>, follicle_transform)
             IN  [s EXCEPT !.par = g.par, !.position_grp = Resolve(g.name)]
        ELSE IF stage = "Invert_grp"
        THEN LET g == group(s.par, <<base_name, "Invert_grp", 0>>, s.position_grp)
             IN  [s EXCEPT !.par = g.par, !.invert_grp = Resolve(g.name)]
        ELSE IF stage = "circle"
        THEN IF plan.circle = "empty"
             THEN [s EXCEPT !.done = TRUE, !.value = <<NoneRef, NoneRef>>]
             ELSE LET g == group(s.par, <<base_name, "Slide_ctrl", 0>>, World)
                  IN  [s EXCEPT !.par = g.par, !.slide_ctrl = g.name]
        ELSE IF stage = "parent_ctrl"
        THEN [s EXCEPT !.par = parent(s.par, s.slide_ctrl, ShortRef(s.invert_grp))]
        ELSE IF stage = "Precision"
        THEN [s EXCEPT !.nodes = @ \cup {"Precision", "Translate_Invert"}]
        ELSE IF stage = "uv_chain"
        THEN [s EXCEPT !.nodes = @ \cup {"Invert_V", "Invert_U", "Precision_V",
                                        "Precision_U", "pos_U_driver",
                                        "pos_V_driver", "clamp"}]
        ELSE IF stage = "zero_ctrl"
        THEN s
        ELSE IF stage = "joint"
        THEN IF plan.joint = "empty"
             THEN s
             ELSE LET g == group(s.par, <<base_name, "bind", 0>>, World)
                  IN  [s EXCEPT !.par = g.par, !.bind_joint = g.name,
                                !.joint = JointAtOrigin]
        ELSE IF stage = "parent_joint"
        THEN IF s.bind_joint = NoneRef THEN s
             ELSE [s EXCEPT !.par = parent(s.par, s.bind_joint, s.slide_ctrl),
                            !.joint = JointKeptInPlace]
        ELSE IF stage = "zero_joint"
        THEN IF s.bind_joint = NoneRef THEN s
             ELSE [s EXCEPT !.joint = ZeroJoint(s.joint)]
        ELSE [s EXCEPT !.done = TRUE, !.value = <<s.slide_ctrl, s.bind_joint>>]

\* whether stage k has a host call at all in this run: the three setAttr and
\* the parent of the joint are in the else branch of "if not bind_joint_result"
RigStageRuns(s, k) ==
    Stages[k] \in {"parent_joint", "zero_joint"} => s.bind_joint # NoneRef

RECURSIVE RigFrom(_, _, _, _, _)
RigFrom(k, s, follicle_transform, base_name, plan) ==
    IF s.done THEN s
    ELSE IF plan.fail_at = k /\ RigStageRuns(s, k)
    THEN [s EXCEPT !.done = TRUE, !.raised = TRUE, !.value = <<NoneRef, NoneRef>>]
    ELSE CHOOSE end \in
            {RigFrom(k + 1, next, follicle_transform, base_name, plan) :
                next \in {RigStage(s, k, follicle_transform, base_name, plan)}} : TRUE

setup_connections(par, follicle_transform, node_prefix, plan) ==
    RigFrom(1, [par |-> par, nodes |-> {}, position_grp |-> NoNode,
                invert_grp |-> NoNode, slide_ctrl |-> NoneRef,
                bind_joint |-> NoneRef, joint |-> NoJoint, done |-> FALSE,
                raised |-> FALSE, value |-> <<NoneRef, NoneRef>>],
            follicle_transform, node_prefix, plan)

NoRig == [calls |-> 0, plan |-> [fail_at |-> 0, circle |-> "made", joint |-> "made"],
          raised |-> FALSE, slide_ctrl |-> NoneRef, bind_joint |-> NoneRef,
          joint |-> NoJoint, nodes |-> {}]

\* a call of setup_follicle_connections on one of the follicles of the scene
SetupConnections ==
    \E prefix \in {<<"A">>, <<"B">>}, plan \in RigPlans :
        /\ setup.calls < MaxRigs
        /\ FollicleOf(prefix) \in DOMAIN dag
        /\ \E r \in {setup_connections(dag, FollicleOf(prefix), prefix, plan)} :
             /\ dag' = r.par
             /\ setup' = [calls |-> setup.calls + 1, plan |-> plan,
                        raised |-> r.raised,
                        slide_ctrl |-> r.value[1], bind_joint |-> r.value[2],
                        joint |-> r.joint, nodes |-> r.nodes]
        /\ UNCHANGED <<hidden, org, stackVars, slideVars, sessVars, query, shift, shading, uv>>

\* the user deletes one of the follicles with what is below it
RigUserDeletes ==
    \E prefix \in {<<"A">>, <<"B">>} :
        /\ FollicleOf(prefix) \in DOMAIN dag
        /\ dag' = delete(dag, FollicleOf(prefix))
        /\ setup' = NoRig
        /\ UNCHANGED <<hidden, org, stackVars, slideVars, sessVars, query, shift, shading, uv>>

RigNext ==
    \/ SetupConnections
    \/ RigUserDeletes

-----------------------------------------------------------------------------
(* Specifications: each starts the part of the program it is about in the
   states that part can start in, and the rest idle. *)

StackInit ==
    /\ textures = <<>>
    /\ call = NoCall
    /\ firstLt = NoNode
    /\ \/ colorConn = NoNode /\ layers = NoLayers
       \/ colorConn = AuthoredTexture(0) /\ layers = NoLayers
       \/ \E S \in SUBSET (0..MaxAuthored) : \E A \in {S \cap {0}, S \cap {MaxAuthored}} :
             /\ colorConn = AuthoredLT
             /\ layers = [n \in {AuthoredLT} |-> AuthoredLayers(S, A)]
    /\ start = colorConn
    /\ follicle = NoFollicle /\ slide = NoSlide /\ preRig = NoPreRig
    /\ dag = NoScene /\ hidden = {} /\ org = NoOrg
    /\ ui = FreshUi /\ locators_data = <<>> /\ follicles_data = <<>>
    /\ textures_data = <<>> /\ dg = NoDg /\ locked = {}
    /\ last = NoLast /\ session = NoSession
    /\ setup = NoRig
    /\ uv = NoUv
    /\ shading = NoShading
    /\ shift = NoShift
    /\ query = NoQuery

SlideInit ==
    /\ follicle = NoFollicle /\ slide = NoSlide /\ preRig = NoPreRig
    /\ textures = <<>> /\ call = NoCall /\ firstLt = NoNode
    /\ colorConn = NoNode /\ layers = NoLayers /\ start = NoNode
    /\ dag = NoScene /\ hidden = {} /\ org = NoOrg
    /\ ui = FreshUi /\ locators_data = <<>> /\ follicles_data = <<>>
    /\ textures_data = <<>> /\ dg = NoDg /\ locked = {}
    /\ last = NoLast /\ session = NoSession
    /\ setup = NoRig
    /\ uv = NoUv
    /\ shading = NoShading
    /\ shift = NoShift
    /\ query = NoQuery

OrgInit ==
    /\ \E groups \in PriorGroups, meshParent \in {World, UserGroup} :
          dag = Scene(groups, meshParent)
    /\ hidden = {}
    /\ org = NoOrg
    /\ textures = <<>> /\ call = NoCall /\ firstLt = NoNode
    /\ colorConn = NoNode /\ layers = NoLayers /\ start = NoNode
    /\ follicle = NoFollicle /\ slide = NoSlide /\ preRig = NoPreRig
    /\ ui = FreshUi /\ locators_data = <<>> /\ follicles_data = <<>>
    /\ textures_data = <<>> /\ dg = NoDg /\ locked = {}
    /\ last = NoLast /\ session = NoSession
    /\ setup = NoRig
    /\ uv = NoUv
    /\ shading = NoShading
    /\ shift = NoShift
    /\ query = NoQuery

SpecStack == StackInit /\ [][StackNext]_vars

SpecSlide == SlideInit /\ [][SlideNext]_vars

SpecOrg == OrgInit /\ [][OrgNext]_vars

\* The window just opened on a scene with one mesh, whose material's color
\* channel is unconnected or fed by an authored texture
SessionInit ==
    /\ dag = (Mesh :> World) @@ (MeshShape :> Mesh)
    /\ hidden = {}
    /\ dg = (Material :> NoNode)
    /\ locked = {}
    /\ colorConn \in {NoNode, AuthoredTexture(0)}
    /\ layers = NoLayers
    /\ ui = FreshUi /\ locators_data = <<>> /\ follicles_data = <<>>
    /\ textures_data = <<>> /\ last = NoLast /\ session = NoSession
    /\ setup = NoRig
    /\ uv = NoUv
    /\ shading = NoShading
    /\ shift = NoShift
    /\ query = NoQuery
    /\ org = NoOrg /\ textures = <<>> /\ call = NoCall /\ firstLt = NoNode
    /\ start = NoNode
    /\ follicle = NoFollicle /\ slide = NoSlide /\ preRig = NoPreRig

SpecSession == SessionInit /\ [][SessionNext]_vars

\* a scene with two meshes, for the clicks of steps 1 and 2
SurfaceNext ==
    \/ on_select_mesh_click
    \/ on_name_changed
    \/ on_create_locator_click
    \/ on_create_follicles_click

SurfaceInit ==
    /\ dag = (Mesh :> World) @@ (MeshShape :> Mesh)
                @@ (OtherMesh :> World) @@ (OtherMeshShape :> OtherMesh)
    /\ hidden = {}
    /\ dg = (Material :> NoNode)
    /\ locked = {}
    /\ colorConn = NoNode
    /\ layers = NoLayers
    /\ ui = FreshUi /\ locators_data = <<>> /\ follicles_data = <<>>
    /\ textures_data = <<>> /\ last = NoLast /\ session = NoSession
    /\ setup = NoRig
    /\ uv = NoUv
    /\ shading = NoShading
    /\ shift = NoShift
    /\ query = NoQuery
    /\ org = NoOrg /\ textures = <<>> /\ call = NoCall /\ firstLt = NoNode
    /\ start = NoNode
    /\ follicle = NoFollicle /\ slide = NoSlide /\ preRig = NoPreRig

SpecSurface == SurfaceInit /\ [][SurfaceNext]_vars

RigInit ==
    /\ \E rigged \in BOOLEAN : dag = UvScene({}, rigged)
    /\ hidden = {} /\ org = NoOrg
    /\ textures = <<>> /\ call = NoCall /\ firstLt = NoNode
    /\ colorConn = NoNode /\ layers = NoLayers /\ start = NoNode
    /\ follicle = NoFollicle /\ slide = NoSlide /\ preRig = NoPreRig
    /\ ui = FreshUi /\ locators_data = <<>> /\ follicles_data = <<>>
    /\ textures_data = <<>> /\ dg = NoDg /\ locked = {}
    /\ last = NoLast /\ session = NoSession
    /\ query = NoQuery
    /\ shift = NoShift
    /\ shading = NoShading
    /\ uv = NoUv
    /\ setup = NoRig

SpecRig == RigInit /\ [][RigNext]_vars

\* The material's color channel is fed by a layeredTexture of the tool or of
\* the user, or by nothing yet
ShiftInit ==
    /\ textures = <<>>
    /\ call = NoCall
    /\ firstLt = NoNode
    /\ \/ colorConn = NoNode /\ layers = NoLayers
       \/ \E S \in SUBSET (0..MaxAuthored) :
             /\ colorConn = AuthoredLT
             /\ layers = [n \in {AuthoredLT} |-> AuthoredLayer(S)]
    /\ start = colorConn
    /\ follicle = NoFollicle /\ slide = NoSlide /\ preRig = NoPreRig
    /\ dag = NoScene /\ hidden = {} /\ org = NoOrg
    /\ ui = FreshUi /\ locators_data = <<>> /\ follicles_data = <<>>
    /\ textures_data = <<>> /\ dg = NoDg /\ locked = {}
    /\ last = NoLast /\ session = NoSession
    /\ setup = NoRig
    /\ uv = NoUv
    /\ shading = NoShading
    /\ query = NoQuery
    /\ shift = NoShift

SpecShift == ShiftInit /\ [][ShiftNext]_vars

\* A mesh with no shading group, with shading groups found on its transform
\* or on its shape, a member of initialShadingGroup or not
MaterialInit ==
    /\ \E from_sets \in {<<>>, <<Utility>>, <<NoShader>>, <<Utility, Lambert1>>}
                          \cup {<<m>> : m \in Materials} :
       \E from_shape \in {<<>>, <<Lambert1>>, <<Utility>>} :
       \E initial_sg \in {NoInitialSG} \cup
                [exists : {TRUE}, member : BOOLEAN,
                 shader : {NoShader, Lambert1, Utility, Shader("material", {}, 3)}] :
          shading = [NoShading EXCEPT !.from_sets = from_sets,
                                      !.from_shape = from_shape,
                                      !.initial_sg = initial_sg]
    /\ textures = <<>> /\ call = NoCall /\ firstLt = NoNode
    /\ colorConn = NoNode /\ layers = NoLayers /\ start = NoNode
    /\ follicle = NoFollicle /\ slide = NoSlide /\ preRig = NoPreRig
    /\ dag = NoScene /\ hidden = {} /\ org = NoOrg
    /\ ui = FreshUi /\ locators_data = <<>> /\ follicles_data = <<>>
    /\ textures_data = <<>> /\ dg = NoDg /\ locked = {}
    /\ last = NoLast /\ session = NoSession
    /\ setup = NoRig
    /\ uv = NoUv
    /\ query = NoQuery
    /\ shift = NoShift

SpecMaterial == MaterialInit /\ [][MaterialNext]_vars

UvInit ==
    /\ \E groups \in {{}, ToolGroups}, rigged \in BOOLEAN : dag = UvScene(groups, rigged)
    /\ hidden = {} /\ org = NoOrg
    /\ textures = <<>>
    /\ call = NoCall
    /\ firstLt = NoNode
    /\ \/ colorConn = NoNode /\ layers = NoLayers
       \/ colorConn = AuthoredTexture(0) /\ layers = NoLayers
       \/ \E S \in SUBSET (0..MaxAuthored) :
             /\ colorConn = AuthoredLT
             /\ layers = [n \in {AuthoredLT} |-> AuthoredLayer(S)]
    /\ start = colorConn
    /\ follicle = NoFollicle /\ slide = NoSlide /\ preRig = NoPreRig
    /\ ui = FreshUi /\ locators_data = <<>> /\ follicles_data = <<>>
    /\ textures_data = <<>> /\ dg = NoDg /\ locked = {}
    /\ last = NoLast /\ session = NoSession
    /\ setup = NoRig
    /\ query = NoQuery
    /\ shift = NoShift
    /\ shading = NoShading
    /\ uv = NoUv

SpecUv == UvInit /\ [][UvNext]_vars

QueryInit ==
    /\ \E nodes \in UserQueryNodes : query = [NoQuery EXCEPT !.nodes = nodes]
    /\ textures = <<>> /\ call = NoCall /\ firstLt = NoNode
    /\ colorConn = NoNode /\ layers = NoLayers /\ start = NoNode
    /\ follicle = NoFollicle /\ slide = NoSlide /\ preRig = NoPreRig
    /\ dag = NoScene /\ hidden = {} /\ org = NoOrg
    /\ ui = FreshUi /\ locators_data = <<>> /\ follicles_data = <<>>
    /\ textures_data = <<>> /\ dg = NoDg /\ locked = {}
    /\ last = NoLast /\ session = NoSession
    /\ setup = NoRig
    /\ uv = NoUv
    /\ shading = NoShading
    /\ shift = NoShift

SpecQuery == QueryInit /\ [][QueryNext]_vars

-----------------------------------------------------------------------------
(* Claims about the slide rig, checked under SpecSlide *)

\* C6: once the rig is built, for every translation of the Slide Control and
\* every Precision, parameterU and parameterV stay within [0, 1].
ParametersStayInUnitSquare ==
    slide.built =>
        /\ ClampMin <= follicle.parameterU /\ follicle.parameterU <= ClampMax
        /\ ClampMin <= follicle.parameterV /\ follicle.parameterV <= ClampMax

ExtremeTranslationClamped ==
    /\ slide.built
    /\ slide.translateX = ExtremeTranslate
    /\ slide.translateY = -ExtremeTranslate
    /\ slide.Precision = DefaultPrecision
    /\ follicle.parameterU = ClampMax
    /\ follicle.parameterV = ClampMin

\* C7: parameterU = clamp01(u0 + Precision * translateX) and
\* parameterV = clamp01(v0 + Precision * translateY), (u0, v0) being the
\* parameters read when the rig was built; at zero translation the
\* Attachment is at (u0, v0).
Clamp01(x) == IF x <= 0 THEN 0 ELSE IF x >= 100 THEN 100 ELSE x

ParametersFollowSlide ==
    slide.built =>
        /\ follicle.parameterU = Clamp01(preRig.u + slide.Precision * slide.translateX)
        /\ follicle.parameterV = Clamp01(preRig.v + slide.Precision * slide.translateY)
        /\ (slide.translateX = 0 /\ slide.translateY = 0) =>
              (follicle.parameterU = preRig.u /\ follicle.parameterV = preRig.v)

SlideMovedAttachment ==
    /\ slide.built
    /\ slide.translateX = 1 /\ slide.translateY = 0
    /\ slide.Precision = DefaultPrecision
    /\ preRig.u = 50 /\ preRig.v = 75
    /\ follicle.parameterU = 58 /\ follicle.parameterV = 75

-----------------------------------------------------------------------------
(* Claims about the scene organizer, checked under SpecOrg *)

GroupsNamed(name) == {n \in DOMAIN dag : n[1] = name[1] /\ n[2] = name[2]}

\* C10: a second organize_scene_hierarchy call, made right after a first one
\* with the same arguments, leaves the scene as the first call left it and
\* makes no cmds.parent call; when the calls ran to the end there is one GEO,
\* one RIG, one UTIL group and one control subgroup of the prefix, and the
\* mesh, Attachment and projector that exist are under them.
OrganizeTwiceIsOrganizeOnce ==
    org.repeated =>
        /\ dag = org.before.par
        /\ hidden = org.before.hid
        /\ org.reparents = 0
        /\ org.outcome = "returned" =>
              /\ \A name \in {Name("GEO"), Name("RIG"), Name("UTIL"),
                                Texture_ctrl_grp(org.args[4])} :
                    Cardinality(GroupsNamed(name)) = 1
              /\ dag[Texture_ctrl_grp(org.args[4])] = Name("RIG")
              /\ dag[Resolve(org.args[2])] = Texture_ctrl_grp(org.args[4])
              /\ Resolve(org.args[3]) \in DOMAIN dag =>
                    dag[Resolve(org.args[3])] = Name("UTIL")
              /\ objExists(dag, org.args[1]) => dag[Mesh] = Name("GEO")

OrganizedTwice ==
    /\ org.repeated
    /\ org.outcome = "returned"
    /\ org.args = <<ShortRef(Mesh), ShortRef(FollicleOf(<<"B">>)), ShortRef(Place3dOf(<<"B">>)), <<"B">>>>
    /\ dag[Mesh] = Name("GEO")
    /\ dag[FollicleOf(<<"B">>)] = Texture_ctrl_grp(<<"B">>)
    /\ dag[Texture_ctrl_grp(<<"B">>)] = Name("RIG")
    /\ Place3dOf(<<"B">>) \in DOMAIN dag /\ dag[Place3dOf(<<"B">>)] = Name("UTIL")
    /\ Name("UTIL") \in hidden /\ FollicleShapeOf(<<"B">>) \in hidden

-----------------------------------------------------------------------------
(* Claims about the layer stack, checked under SpecStack *)

Connected == call.result # NoNode
ColorNow == layers[colorConn].color
AlphaNow == layers[colorConn].alpha

\* C1: starting from an unconnected color channel, after N insertions the
\* texture inserted k-th before the most recent one feeds inputs[k].color,
\* for every k < N.
LayerOrderLIFO ==
    (start = NoNode /\ textures # <<>>) =>
        /\ colorConn \in DOMAIN layers
        /\ \A k \in 0..(Len(textures) - 1) :
              /\ k \in DOMAIN ColorNow
              /\ ColorNow[k] = textures[Len(textures) - k]

\* C2: an insertion onto an existing layeredTexture moves every connected
\* color source from index i to index i+1, disconnects none, puts the new
\* texture at index 0, and the number of occupied layers grows by one.
InsertShiftsEveryLayer ==
    (call.branch = "layered" /\ Connected) =>
        /\ \A i \in DOMAIN call.prevLayer.color :
              /\ i + 1 \in DOMAIN ColorNow
              /\ ColorNow[i + 1] = call.prevLayer.color[i]
        /\ 0 \in DOMAIN ColorNow
        /\ ColorNow[0] = call.top
        /\ Cardinality(DOMAIN ColorNow) =
              Cardinality(DOMAIN call.prevLayer.color) + 1

\* C3: when a node that is not a layeredTexture feeds the color channel, the
\* call creates one layeredTexture, feeds the color channel from it, puts the
\* previous source at index 1 and the new texture (color and alpha) at
\* index 0.
WrapKeepsAuthoredSource ==
    (call.branch = "wrap" /\ Connected) =>
        /\ colorConn = call.result
        /\ colorConn.type = "layeredTexture"
        /\ colorConn \notin call.prevNodes
        /\ DOMAIN layers = call.prevNodes \cup {colorConn}
        /\ DOMAIN ColorNow = {0, 1}
        /\ ColorNow[0] = call.top
        /\ ColorNow[1] = call.prevConn
        /\ DOMAIN AlphaNow = {0}
        /\ AlphaNow[0] = call.top

WrapReached ==
    call.branch = "wrap" /\ Connected /\ call.prevConn = AuthoredTexture(0)

\* C4: when nothing feeds the color channel, the call creates a
\* layeredTexture, feeds the color channel from it, and connects the new
\* texture's color and alpha to index 0; index 0 is the only occupied layer.
FreshStackHasOneLayer ==
    (call.branch = "fresh" /\ Connected) =>
        /\ colorConn = call.result
        /\ colorConn.type = "layeredTexture"
        /\ colorConn \notin call.prevNodes
        /\ DOMAIN ColorNow = {0}
        /\ ColorNow[0] = call.top
        /\ DOMAIN AlphaNow = {0}
        /\ AlphaNow[0] = call.top

FreshReached ==
    call.branch = "fresh" /\ Connected /\ call.prevConn = NoNode

\* C5: after any sequence of successful connections, in either mode, one
\* layeredTexture feeds the color channel: the one the first connection
\* returned, returned again by every later connection; no other has been
\* made for the channel.  (`layers` holds the layeredTextures of the color
\* channel; the <prefix>_alpha_layeredTexture of projection mode feeds its
\* projection's alphaOffset and is a node of `dg`.)
OneColorStackPerChannel ==
    (textures # <<>>) =>
        /\ colorConn.type = "layeredTexture"
        /\ colorConn = firstLt
        /\ Connected => call.result = firstLt
        /\ DOMAIN layers = {firstLt}

StackReused ==
    /\ Len(textures) >= 3
    /\ Connected
    /\ call.branch = "layered"
    /\ call.fn = "connect_texture_using_uvs"
    /\ start = NoNode

-----------------------------------------------------------------------------
(* Claims about the tool session, checked under SpecSession *)

\* C8: a click on Create Locator whose prefix is in use, by a pending marker
\* or by an Attachment promoted since the tool state was last reset and
\* still in the scene, is rejected: no marker is recorded and neither the
\* scene nor the records change.
DuplicatePrefixRejected ==
    (last.op = "create_locator" /\ last.in_use)
        => (~last.accepted /\ ~last.changed)

\* C9: after a click on Delete Tool Generated Nodes in which no deletion
\* failed, none of the nodes the records named when the button was pressed
\* (locators, follicles, controls, and each texture's file, projection,
\* placement and layeredTexture nodes) exists; after one in which some
\* deletion failed, the count reported is the number of targeted nodes that
\* are gone.
CleanupRemovesRecordedNodes ==
    last.op = "delete" =>
        /\ last.failed = 0 =>
              /\ last.recorded \cap ((DOMAIN dag) \cup (DOMAIN dg)) = {}
              /\ last.recorded_lt \cap DOMAIN layers = {}
        /\ last.failed > 0 => last.deleted_count = last.removed

-----------------------------------------------------------------------------
(* Claims about what the organizer returns, checked under SpecOrg *)

\* C11: when organize_scene_hierarchy runs to its end on a mesh it found, the
\* value it returns is the full path the mesh has after the call, "|GEO|mesh"
\* (the value the connect-all loop then passes on for the next prefix).
OrganizeReturnsFullPath ==
    (org.outcome = "returned" /\ objExists(org.before.par, org.args[1]))
        => org.result = FullPath(dag, Mesh)

\* C12: a call of organize_scene_hierarchy without a projector (place3d_node
\* None, as UV mode calls it) on a mesh and a follicle that exist leaves the
\* GEO, RIG and UTIL groups in the scene, the mesh under GEO, the follicle
\* under <prefix>_Texture_ctrl_grp under RIG, and the follicle's shape hidden.
OrganizeWithoutProjector ==
    (/\ org.outcome # "none"
     /\ org.args[3] = NoneRef
     /\ objExists(org.before.par, org.args[1])
     /\ objExists(org.before.par, org.args[2]))
        => /\ {Name("GEO"), Name("RIG"), Name("UTIL")} \subseteq DOMAIN dag
           /\ dag[Mesh] = Name("GEO")
           /\ dag[Resolve(org.args[2])] = Texture_ctrl_grp(org.args[4])
           /\ dag[Texture_ctrl_grp(org.args[4])] = Name("RIG")
           /\ listRelativesShapes(dag, org.args[2]) \subseteq hidden

-----------------------------------------------------------------------------
(* Claims about the transient queries, checked under SpecQuery *)

\* C13: whatever the host does during a call of get_world_space_at_uv or
\* get_uv_at_point (every call succeeds, the mesh shape has no output
\* attribute, or any one host call raises), the node the call created is
\* deleted exactly once and the nodes of the scene after the call are those
\* before it.
TransientNodeDeletedOnce ==
    query.fn # "none" =>
        /\ query.nodes = query.before
        /\ query.node # NoNode => query.deletes = 1
        /\ query.node = NoNode => query.deletes = 0

TransientPathsReached ==
    /\ query.fn = "get_uv_at_point"
    /\ query.node # NoNode
    /\ query.plan.fail_at = 5
    /\ query.plan.output = "outMesh"
    /\ query.before # {}
    /\ query.deletes = 1

\* C14: a call of organize_scene_hierarchy never ends in an exception: when
\* a host call inside it fails, the call still returns a value to its caller.
OrganizeNeverRaises ==
    org.outcome # "raised"

-----------------------------------------------------------------------------
(* Claims about the batch handlers of the session, checked under SpecSession *)

TextureInsertedOncePerPrefix ==
    session.reinserted = {}

ShiftFailureKeepsLayers ==
    (shift.stage = "raised" /\ call.result # NoNode) =>
        LET now    == layers[colorConn].color
            before == shift.before.color
        IN  /\ 0 \in DOMAIN now /\ now[0] = call.top
            /\ \A i \in DOMAIN before :
                  \E j \in (DOMAIN now) \ {0} : now[j] = before[i]
            /\ \A i1, i2 \in DOMAIN before : \A j1, j2 \in DOMAIN now :
                  (i1 < i2 /\ now[j1] = before[i1] /\ now[j2] = before[i2])
                      => j1 < j2

-----------------------------------------------------------------------------
(* Claims about the material lookup, checked under SpecMaterial *)

\* C19: a connect call on a mesh on which no material is found, in which no
\* host call of the material creation raises, does not return for lack of a
\* material: it takes the material of initialShadingGroup when the mesh is a
\* member of it and the group has one, and otherwise a Lambert it creates
\* and assigns to the mesh, and goes on to the material's color attribute.
MaterialAlwaysFound ==
    (shading.fn # "none" /\ shading.found = <<>> /\ shading.fail_at = 0) =>
        LET initial_sg == shading.before[1].initial_sg
            reusable == /\ initial_sg.exists /\ initial_sg.member
                        /\ initial_sg.shader.kind = "material"
        IN  /\ shading.result # "no_material"
            /\ reusable => /\ shading.material = initial_sg.shader
                           /\ shading.from_sets = shading.before[1].from_sets
            /\ ~reusable => /\ shading.material = AutoMat(shading.created)
                            /\ shading.from_sets = <<shading.material>>
                            /\ shading.result = "connecting"

LambertCreatedAndAssigned ==
    /\ shading.fn = "connect_texture_to_mesh" /\ shading.found = <<>>
    /\ shading.fail_at = 0
    /\ shading.before[1].initial_sg.exists
    /\ ~shading.before[1].initial_sg.member
    /\ shading.material = AutoMat(1)
    /\ shading.result = "connecting"

\* C20: the color attribute of the material a connect call uses is baseColor
\* when the material has it, else color when it has that, else diffuseColor
\* when it has that; a material with none of the three makes the call return
\* its null result.
ColorAttributeByPriority ==
    (shading.fn # "none" /\ shading.material # NoShader) =>
        LET attrs == shading.material.attrs
        IN  /\ "baseColor" \in attrs => shading.color_attr = "baseColor"
            /\ ("baseColor" \notin attrs /\ "color" \in attrs)
                  => shading.color_attr = "color"
            /\ (attrs = {"diffuseColor"}) => shading.color_attr = "diffuseColor"
            /\ shading.color_attr # "none" => shading.result = "connecting"
            /\ (attrs \cap ColorAttrs = {})
                  => shading.color_attr = "none" /\ shading.result = "no_color_attr"

ColorChosenOverDiffuse ==
    /\ shading.fn # "none"
    /\ shading.material.attrs = {"color", "diffuseColor"}
    /\ shading.color_attr = "color"

-----------------------------------------------------------------------------
(* Claims about the UV placement mode, checked under SpecUv *)

\* C21: run_step3_uv_logic, called with a mesh that exists, an image file
\* that exists and a follicle that exists and has a Slide_ctrl, with no host
\* failure of the last connection, returns a file node and a layeredTexture
\* that are not None; the layeredTexture feeds the material's color channel
\* and the new file node is the source of its inputs[0].color.
UvModeConnects ==
    (/\ uv.fn # "none"
     /\ objExists(uv.before, uv.args[1])
     /\ uv.args[2] = "good.png"
     /\ uv.slide_ctrl # NoneRef
     /\ uv.args[5] = "ok")
        => /\ uv.file_node # NoneRef
           /\ uv.layered_texture # NoNode
           /\ colorConn = uv.layered_texture
           /\ 0 \in DOMAIN layers[colorConn].color
           /\ layers[colorConn].color[0] = dg[Resolve(uv.file_node)]
           /\ layers[colorConn].color[0] = uv.top

UvModeOnStack ==
    /\ uv.fn # "none" /\ uv.slide_ctrl # NoneRef /\ uv.file_node # NoneRef
    /\ Len(textures) = 2
    /\ 1 \in DOMAIN layers[colorConn].color
    /\ layers[colorConn].color[1] = textures[1]

(***************************************************************************)
(* C22: a prefix is recorded as rigged in follicles_data only if its       *)
(* follicle was built together with its Slide Control: the control         *)
(* recorded for every prefix is a Slide_ctrl node.                         *)
(***************************************************************************)
RiggedOnlyWithSlideControl ==
    \A i \in 1..Len(follicles_data) :
        Resolve(follicles_data[i].control)[2] = "Slide_ctrl"

(***************************************************************************)
(* C23: get_max_layer_index returns the highest layer index whose color    *)
(* input is connected, or -1 when none is: for the layeredTexture an       *)
(* insertion found on the color channel, the index it computed is the      *)
(* greatest index of a connected color input.                              *)
(***************************************************************************)
MaxLayerIndexIsHighest ==
    call.branch = "layered" =>
        LET used == DOMAIN call.prevLayer.color
        IN  get_max_layer_index(call.prevLayer) =
                IF used = {} THEN -1
                ELSE CHOOSE m \in used : \A j \in used : j <= m

(***************************************************************************)
(* C24: setup_follicle_connections is all-or-nothing in its result: when a *)
(* host call fails it returns (None, None); otherwise it returns a Slide   *)
(* Control together with a Bind Joint that is a child of that Slide        *)
(* Control with zero local translate, rotate and joint orient.             *)
(***************************************************************************)
SetupAllOrNothing ==
    setup.calls > 0 =>
        /\ setup.raised => setup.slide_ctrl = NoneRef /\ setup.bind_joint = NoneRef
        /\ \/ setup.slide_ctrl = NoneRef /\ setup.bind_joint = NoneRef
           \/ /\ setup.slide_ctrl # NoneRef
              /\ setup.bind_joint # NoneRef
              /\ dag[Resolve(setup.bind_joint)] = Resolve(setup.slide_ctrl)
              /\ setup.joint = ZeroJoint(setup.joint)

(***************************************************************************)
(* C25: Delete Tool Nodes completes whichever of the recorded nodes were   *)
(* deleted by the user before the click, and ends with the session in its  *)
(* initial state: no surface selected, no marker, Attachment or texture    *)
(* record, and the default prefix in the prefix field.                     *)
(***************************************************************************)
DeleteEndsInInitialState ==
    last.op = "delete" =>
        /\ ui.selected_mesh_transform = NoneRef
        /\ ui.selected_mesh_shape = NoneRef
        /\ locators_data = <<>>
        /\ follicles_data = <<>>
        /\ textures_data = <<>>
        /\ ui.name_field = DefaultPrefix
        /\ ~ui.create_locator_button /\ ~ui.step2_frame /\ ~ui.step3_frame

\* the click came when a recorded node was gone and another was still there
DeletedWithNodesMissing ==
    /\ last.op = "delete"
    /\ last.missing # {}
    /\ last.deleted_count > 0

(***************************************************************************)
(* C26: when the Attachment of a rigged prefix was deleted by the user     *)
(* before Connect All Textures, the click ends without an exception, adds  *)
(* no layer for that prefix, and connects every other prefix of the batch  *)
(* that has a texture file and an Attachment: the layers added are those   *)
(* of the other prefixes.                                                  *)
(***************************************************************************)
DeletedAttachmentOnlyFails ==
    (last.op = "connect" /\ last.gone # {}) =>
        /\ ~last.raised
        /\ last.added = Cardinality(last.ready)

(***************************************************************************)
(* C27: after any sequence of insertions, at every index of the stack      *)
(* whose color input is connected, the alpha input, when it is connected,  *)
(* has the same source node as the color input.                            *)
(***************************************************************************)
AlphaFollowsColor ==
    \A lt \in DOMAIN layers :
        \A i \in (DOMAIN layers[lt].color) \cap (DOMAIN layers[lt].alpha) :
            layers[lt].alpha[i] = layers[lt].color[i]

SkippedPrefixKeepsRecords ==
    last.op = "connect" =>
        \A prefix \in last.skipped :
            /\ prefix \in Keys(follicles_data)
            /\ prefix \in Keys(textures_data)

(***************************************************************************)
(* C30: once a surface is selected with Select Mesh, the marker set holds  *)
(* no marker that was placed for a surface selected before: every pending  *)
(* marker was placed while the surface now selected was the selected one.  *)
(***************************************************************************)
NoMarkerOfEarlierSurface ==
    ui.selected_mesh_transform # NoneRef =>
        \A i \in 1..Len(locators_data) :
            <<locators_data[i].locator, ui.selected_mesh_transform>> \in session.placed_on

====
